---- MODULE Spec2Model ----
(***************************************************************************)
(* Memora session store and rotation engine                                *)
(* (src/src/memora/session_manager.py; src/engine/session_manager.py is    *)
(* the same code with module-level paths).                                 *)
(*                                                                         *)
(* The model follows the file operations of the code one system call at a  *)
(* time: Path.write_text is open-with-truncation followed by the write,    *)
(* Path.replace is an atomic rename.  A process can be terminated between  *)
(* any two of them.                                                        *)
(*                                                                         *)
(* The retrieval index (_search_longterm_jsonl of memory_manager.py) is    *)
(* modelled as a function of the long-term log and the query.              *)
(*                                                                         *)
(* The prompt composer (build_memory_block of memory_manager.py and        *)
(* build_prompt of cli.py) reads the core memory, loads the session and    *)
(* runs the search; cmd_ask and cmd_run of cli.py wrap two add_message     *)
(* calls around it.                                                        *)
(***************************************************************************)
EXTENDS Integers, Sequences, FiniteSets, TLC

\* ---------------------------------------------------------------- bounds
\* add_message calls committed beyond the starting store, with faults around
MaxAppends == 2
\* add_message calls committed by an undisturbed single writer
MaxRun == 43
\* invocations started by two concurrent writers, together
MaxCallsConc == 3
\* events that disturb the add_message loop: kills of a process, damages of the
\* active file and sessions created by init_session, together
MaxFaults == 2
\* last reading of the clock, in ticks
MaxClock == 1
\* add_message calls whose content is the empty text
MaxEmpty == 1
\* load_session calls made one after the other
MaxLoadCalls == 3
\* lines of the long-term log
MaxRows == 3
\* build_prompt calls in a run of the composer
MaxBuilds == 2
\* commands the user gives at the command line
MaxCommands == 2

\* ------------------------------------------------------ program constants
MAX_CONVERSATION_TURNS == 20
KEEP_RECENT_TURNS == 10
max_chars_per_item == 220

\* isoformat() (line 17) is finer than strftime('%Y%m%dT%H%M%SZ') (line 100):
\* several readings of the clock fall into one second
TicksPerSecond == 2
Second(t) == t \div TicksPerSecond

Procs == {1, 2}

NoneId == "<None>"
GeneratedId == "default"
SessionIds == {GeneratedId, "s1"}
SessionIdArgs == {NoneId, "", "s1"}

\* the check lets a fourth role through
ValidRolesWithTool == {"user", "assistant", "system", "tool"}

\* add_message, line 107
ValidRoles == {"user", "assistant", "system"}
RawRoles == {"user", " User ", "assistant", "ASSISTANT", "tool"}

\* ------------------------------------------------------------- the files
Active == <<"sessions", "active_session.json">>
Backup == <<"sessions", "active_session.backup.json">>
\* archive_dir() / f"{session_id}_{now:%Y%m%dT%H%M%SZ}.json"
ArchiveFile(sid, sec) == <<"sessions", "archive", sid, sec>>
ArchivePath(sid, t) == ArchiveFile(sid, Second(t))
ArchivePaths == {ArchiveFile(sid, sec) : sid \in SessionIds, sec \in 0..Second(MaxClock)}
\* the write goes to the target itself
TmpOfInPlace(path) == path

\* path.with_suffix(path.suffix + ".tmp")
TmpOf(path) == Append(path, ".tmp")
\* core_memory_path()
CoreMemory == <<"core", "master_memory.md">>
Paths == {Active, Backup, CoreMemory} \cup ArchivePaths
           \cup {TmpOf(path) : path \in {Active} \cup ArchivePaths}

NoFile == [kind |-> "none"]
\* a file that was truncated and holds a proper prefix of a JSON text (possibly
\* nothing): it does not parse
Torn == [kind |-> "torn"]
\* json.dumps(payload, ensure_ascii=False, indent=2)
JsonDumps(payload) == [kind |-> "json", data |-> payload]
Exists(f) == f.kind # "none"
\* json.loads succeeds on the text
Parses(f) == f.kind = "json"
JsonLoads(f) == f.data

\* a file that is not JSON: the core memory
TextFile(text) == [kind |-> "text", data |-> text]

NoFd == <<"nofd">>
Orphan == <<"orphan">>

\* -------------------------------------------------------------- sessions
\* the given id is never taken
TruthyNever(sid) == FALSE

\* `session_id or ...`, line 28
Truthy(sid) == sid \notin {NoneId, ""}

\* the fresh session is not empty
DefaultSessionWithTurn(sid, t) ==
    [session_id |-> IF Truthy(sid) THEN sid ELSE GeneratedId,
     last_updated |-> t,
     conversation |-> <<[role |-> "user", content |-> <<>>]>>,
     summary |-> <<>>]

\* _default_session, lines 27-32
DefaultSession(sid, t) ==
    [session_id |-> IF Truthy(sid) THEN sid ELSE GeneratedId,
     last_updated |-> t,
     conversation |-> <<>>,
     summary |-> <<>>]

NoSession == [session_id |-> "", last_updated |-> 0, conversation |-> <<>>, summary |-> <<>>]

\* role.strip().lower()
Normalize(raw) ==
    CASE raw \in {"user", " User "} -> "user"
      [] raw \in {"assistant", "ASSISTANT"} -> "assistant"
      [] OTHER -> raw

\* the caller's k-th message: user and assistant alternate, as in cmd_ask/cmd_run
ExpectedRole(k) == IF k % 2 = 1 THEN "user" ELSE "assistant"

\* a caller that passes one of these two roles passes the one whose turn it is
CallerSends(role, k) == role \in {"user", "assistant"} => role = ExpectedRole(k)

\* A text is the sequence of its pieces.  A piece is a white-space character, a
\* literal the code writes, or a word: a run of characters without white space that
\* the code copies as a whole.
Space == <<" ">>
NewLine == <<"\n">>
IsWhiteSpace(piece) == piece = Space \/ piece = NewLine

\* the text of the k-th message as process p sends it: one word
Word(k, p) == <<k, p>>
\* what callers pass as content: a word, or nothing at all
ContentKinds == {"word", "empty"}
Content(k, p, kind) == IF kind = "empty" THEN <<>> ELSE <<Word(k, p)>>

Message(k, p) == [role |-> ExpectedRole(k), content |-> Content(k, p, "word")]

\* the session a single writer has persisted after n add_message calls at time 0
\* (n <= MAX_CONVERSATION_TURNS: no rotation yet)
SessionAfter(n) ==
    [session_id |-> GeneratedId,
     last_updated |-> 0,
     conversation |-> [i \in 1..n |-> Message(i, 1)],
     summary |-> <<>>]

\* str.strip(): white space is removed from both ends
RECURSIVE Strip(_)
Strip(text) ==
    IF text = <<>> THEN text
    ELSE IF IsWhiteSpace(Head(text)) THEN Strip(Tail(text))
    ELSE IF IsWhiteSpace(text[Len(text)]) THEN Strip(SubSeq(text, 1, Len(text) - 1))
    ELSE text

\* str.replace("\n", " ")
FlattenNewLines(text) == [i \in 1..Len(text) |-> IF text[i] = NewLine THEN Space ELSE text[i]]

\* the cut leaves no marker
TruncateUnmarked(text) ==
    IF Len(text) > max_chars_per_item
    THEN SubSeq(text, 1, max_chars_per_item)
    ELSE text

\* _compress_messages, lines 76-77: len() counts characters, so every piece of a
\* text that is measured here stands for one character (a word stands for a
\* short one: it is never what takes a content past the limit)
Truncate(text) ==
    IF Len(text) > max_chars_per_item
    THEN SubSeq(text, 1, max_chars_per_item) \o <<<<"...">>>>
    ELSE text

\* _compress_messages, lines 74-78: f"- {role}: {content}"
CompressLine(m) ==
    <<<<"-">>, Space, <<m.role>>, <<":">>, Space>>
        \o Truncate(FlattenNewLines(Strip(m.content)))

\* "\n".join(lines)
RECURSIVE JoinLines(_)
JoinLines(lines) ==
    IF lines = <<>> THEN <<>>
    ELSE IF Len(lines) = 1 THEN lines[1]
    ELSE lines[1] \o <<NewLine>> \o JoinLines(Tail(lines))

CompressMessages(messages) ==
    JoinLines([i \in 1..Len(messages) |-> CompressLine(messages[i])])

\* utc_now_iso() as it appears in a text
IsoTime(t) == <<"utc", t, "+00:00">>

\* f"[Auto summary @ {utc_now_iso()}]\n"
HeaderLine(t) == <<<<"[Auto summary @">>, Space, IsoTime(t), <<"]">>, NewLine>>

\* the "\n\n" between the summary so far and the new header
BlankLine == <<NewLine, NewLine>>

\* the whole conversation goes into the summary
OldMessagesAll(conversation) == conversation

\* the oldest message is left out of the summary
OldMessagesButFirst(conversation) ==
    SubSeq(conversation, 2, Len(conversation) - KEEP_RECENT_TURNS)

\* conversation[:-KEEP_RECENT_TURNS]
OldMessages(conversation) ==
    SubSeq(conversation, 1, Len(conversation) - KEEP_RECENT_TURNS)

\* the oldest messages are kept instead of the newest
RecentMessagesOldest(conversation) == SubSeq(conversation, 1, KEEP_RECENT_TURNS)

\* the slice keeps one message too many
RecentMessagesOneMore(conversation) ==
    SubSeq(conversation, Len(conversation) - KEEP_RECENT_TURNS, Len(conversation))

\* conversation[-KEEP_RECENT_TURNS:]
RecentMessages(conversation) ==
    SubSeq(conversation, Len(conversation) - KEEP_RECENT_TURNS + 1, Len(conversation))

\* no conversation is long enough to rotate
NeedsRotationNever(session) == FALSE

\* the threshold is compared one too low
NeedsRotationEarly(session) == Len(session.conversation) > MAX_CONVERSATION_TURNS - 1

\* the threshold is compared one too high
NeedsRotationLate(session) == Len(session.conversation) > MAX_CONVERSATION_TURNS + 1

\* summarize_and_prune, line 84, negated
NeedsRotation(session) == Len(session.conversation) > MAX_CONVERSATION_TURNS

NewSummary(session, t) ==
    LET compressed == CompressMessages(OldMessages(session.conversation))
        current_summary == Strip(session.summary)
    IN  IF current_summary # <<>>
        THEN current_summary \o BlankLine \o HeaderLine(t) \o compressed
        ELSE HeaderLine(t) \o compressed

\* the rotated session gets an id of its own
RotatedUnderNewId(session, t) ==
    [session EXCEPT !.summary = NewSummary(session, t),
                    !.conversation = RecentMessages(session.conversation),
                    !.session_id = "s1"]

\* the session as summarize_and_prune leaves it when it rotates
Rotated(session, t) ==
    [session EXCEPT !.summary = NewSummary(session, t),
                    !.conversation = RecentMessages(session.conversation)]

\* what summarize_and_prune hands to _atomic_write_json for the archive
ArchivePayload(session, t) == Rotated(session, t)

\* ------------------------------------------------------ workspace layout
\* DEFAULT_CORE_MEMORY (workspace.py, lines 8-16): a heading, a blank line, some
\* lines of text, a final newline
DEFAULT_CORE_MEMORY ==
    <<<<"# Master Core Memory">>, NewLine, NewLine, <<"...">>, NewLine>>

\* the default core memory is written whatever the file holds
EnsureWorkspaceLayoutAlways(files) ==
    [files EXCEPT ![CoreMemory] = [kind |-> "text", data |-> DEFAULT_CORE_MEMORY]]

\* ensure_workspace_layout, lines 117-119: the core memory is created when it is
\* not there (the directories and the .gitignore of the repository are not modelled)
EnsureWorkspaceLayout(files) ==
    IF Exists(files[CoreMemory]) THEN files
    ELSE [files EXCEPT ![CoreMemory] = TextFile(DEFAULT_CORE_MEMORY)]

\* ------------------------------------------------------- retrieval index
\* characters of the texts the search reads
ChA == <<"a">>
ChB == <<"b">>
ChUpA == <<"A">>
ChUpB == <<"B">>

\* str.lower()
Lower(text) ==
    [i \in 1..Len(text) |->
        CASE text[i] = ChUpA -> ChA
          [] text[i] = ChUpB -> ChB
          [] OTHER -> text[i]]

\* str.split(): the runs between white space
RECURSIVE Split(_)
Split(text) ==
    IF text = <<>> THEN <<>>
    ELSE IF IsWhiteSpace(Head(text)) THEN Split(Tail(text))
    ELSE LET ends == {i \in 1..Len(text) : IsWhiteSpace(text[i])}
             n == IF ends = {} THEN Len(text) + 1
                  ELSE CHOOSE i \in ends : \A j \in ends : i <= j
         IN  <<SubSeq(text, 1, n - 1)>> \o Split(SubSeq(text, n, Len(text)))

\* the tokens without the length filter
TokensAnyLength(input) == Split(Lower(input))

\* _search_longterm_jsonl, line 36
Tokens(input) == SelectSeq(Split(Lower(input)), LAMBDA t : Len(t) > 1)

\* `token in lowered`
Contains(text, token) ==
    \E i \in 1..(Len(text) - Len(token) + 1) : SubSeq(text, i, i + Len(token) - 1) = token

\* _search_longterm_jsonl, line 53: sum(1 for token in tokens if token in lowered)
Score(tokens, lowered) ==
    Cardinality({k \in 1..Len(tokens) : Contains(lowered, tokens[k])})

\* a line of the log: white space only, text that is not JSON, a JSON value that
\* is not an object (a number, a string, a list, null), or a JSON object with its
\* "text"
BlankRow == [kind |-> "blank", text |-> <<>>]
JunkRow == [kind |-> "junk", text |-> <<>>]
ScalarRow == [kind |-> "scalar", text |-> <<>>]
Row(text) == [kind |-> "row", text |-> text]

\* the scan keeps the records that score 0 too
RECURSIVE ScoredAll(_, _)
ScoredAll(tokens, lines) ==
    IF lines = <<>> THEN <<>>
    ELSE LET line == Head(lines)
             score == Score(tokens, Lower(line.text))
         IN  (IF line.kind = "row"
              THEN <<[score |-> score, text |-> line.text]>>
              ELSE <<>>) \o ScoredAll(tokens, Tail(lines))

\* _search_longterm_jsonl, lines 41-55: the (score, text) pairs in file order
RECURSIVE Scored(_, _)
Scored(tokens, lines) ==
    IF lines = <<>> THEN <<>>
    ELSE LET line == Head(lines)
             score == Score(tokens, Lower(line.text))
         IN  (IF line.kind = "row" /\ score > 0
              THEN <<[score |-> score, text |-> line.text]>>
              ELSE <<>>) \o Scored(tokens, Tail(lines))

\* the sort without reverse=True: lowest score first
RECURSIVE SortAscending(_, _)
SortAscending(scored, top) ==
    IF top < 0 THEN <<>>
    ELSE SortAscending(scored, top - 1) \o SelectSeq(scored, LAMBDA e : e.score = top)

\* scored.sort(key=lambda x: x[0], reverse=True): stable, highest score first; the
\* scores lie in 0..top
RECURSIVE SortByScore(_, _)
SortByScore(scored, top) ==
    IF top < 0 THEN <<>>
    ELSE SelectSeq(scored, LAMBDA e : e.score = top) \o SortByScore(scored, top - 1)

\* scored[:limit], texts only
Top(scored, lim) ==
    [i \in 1..(IF Len(scored) < lim THEN Len(scored) ELSE lim) |-> scored[i].text]

Jsonl(lines) == [kind |-> "jsonl", lines |-> lines]

NoSearch ==
    [limit |-> 0, tokens |-> <<>>, scored |-> <<>>, matches |-> <<>>, error |-> ""]

\* a line that is not JSON ends the scan as well
RowGetOrParseRaises(lines) == \E i \in 1..Len(lines) : lines[i].kind \in {"scalar", "junk"}

\* row.get on a value that is not a dict: the scan ends with AttributeError
RowGetRaises(lines) == \E i \in 1..Len(lines) : lines[i].kind = "scalar"

\* _search_longterm_jsonl, lines 31-58
SearchResult(log, input, lim) ==
    IF ~Exists(log) THEN [NoSearch EXCEPT !.limit = lim]
    ELSE IF Tokens(input) = <<>> THEN [NoSearch EXCEPT !.limit = lim]
    ELSE IF RowGetRaises(log.lines)
    THEN [NoSearch EXCEPT !.limit = lim, !.tokens = Tokens(input),
                          !.error = "AttributeError"]
    ELSE LET tokens == Tokens(input)
             scored == SortByScore(Scored(tokens, log.lines), Len(tokens))
         IN  [limit |-> lim, tokens |-> tokens, scored |-> scored,
              matches |-> Top(scored, lim), error |-> ""]

\* the texts of the records and the queries the search is run on
RowTexts ==
    {<<>>,
     <<ChA, ChB>>,
     <<ChA, ChB, ChA, ChB>>,
     <<ChUpA, ChUpB, Space, ChB, ChA>>,
     <<ChB, ChA>>,
     <<ChB, ChB>>}
QueryInputs ==
    {<<>>,
     <<ChA>>,
     <<ChB, Space, ChA>>,
     <<ChA, ChB>>,
     <<ChUpA, ChUpB>>,
     <<ChA, ChB, Space, ChB, ChA>>,
     <<Space, ChA, ChB, NewLine, Space, ChA, ChB>>}
LogLines == {BlankRow, JunkRow, ScalarRow} \cup {Row(text) : text \in RowTexts}
RECURSIVE SeqsUpTo(_, _)
SeqsUpTo(S, n) ==
    IF n = 0 THEN {<<>>}
    ELSE LET shorter == SeqsUpTo(S, n - 1)
         IN  shorter \cup {Append(q, x) : q \in {r \in shorter : Len(r) = n - 1}, x \in S}
\* the log is absent, or holds up to MaxRows lines
Logs == {NoFile} \cup {Jsonl(lines) : lines \in SeqsUpTo(LogLines, MaxRows)}
\* search_longterm, line 61: limit, 4 unless the caller says otherwise
DefaultLimit == 4
Limits == {1, DefaultLimit}

\* ------------------------------------------------------- prompt composer
\* load_core_memory, lines 12-16
LoadCoreMemory(file) == IF ~Exists(file) THEN <<>> ELSE Strip(file.data)

\* "(empty)"
Placeholder == <<<<"(empty)">>>>
\* search_longterm, line 64
NoLongterm == <<<<"(no relevant long-term memory found)">>>>

\* `text or placeholder`
OrElse(text, placeholder) == IF text # <<>> THEN text ELSE placeholder

\* str.upper() of a role
Upper(role) ==
    CASE role = "user" -> "USER"
      [] role = "assistant" -> "ASSISTANT"
      [] role = "system" -> "SYSTEM"
      [] OTHER -> role

\* format_conversation, lines 25-27: f"[{role}] {content}"
FormatMessage(m) == <<<<"[">>, <<Upper(m.role)>>, <<"]">>, Space>> \o Strip(m.content)

\* the newest message comes first
FormatConversationNewestFirst(conversation) ==
    IF conversation = <<>> THEN Placeholder
    ELSE JoinLines([i \in 1..Len(conversation) |->
                        FormatMessage(conversation[Len(conversation) + 1 - i])])

\* format_conversation, lines 19-28
FormatConversation(conversation) ==
    IF conversation = <<>> THEN Placeholder
    ELSE JoinLines([i \in 1..Len(conversation) |-> FormatMessage(conversation[i])])

\* search_longterm, lines 62-66
SearchLongterm(matches) ==
    IF matches = <<>> THEN NoLongterm
    ELSE JoinLines([i \in 1..Len(matches) |-> <<<<"-">>, Space>> \o matches[i]])

\* the headings of the sections
CoreHeading == <<"### CORE MEMORY">>
SummaryHeading == <<"### SESSION SUMMARY">>
RecentHeading == <<"### RECENT CONVERSATION">>
LongtermHeading == <<"### LONG-TERM MEMORY">>
RequestHeading == <<"### USER REQUEST">>

\* heading + "\n" + body
Section(heading, body) == <<heading, NewLine>> \o body

\* the summary comes before the core memory
BuildMemoryBlockSummaryFirst(core, session, longtermText) ==
    Section(SummaryHeading, OrElse(session.summary, Placeholder))
        \o BlankLine
        \o Section(CoreHeading, OrElse(core, Placeholder))
        \o BlankLine
        \o Section(RecentHeading, FormatConversation(session.conversation))
        \o BlankLine
        \o Section(LongtermHeading, longtermText)

\* build_memory_block, lines 74-81: the four sections joined by "\n\n"
BuildMemoryBlock(core, session, longtermText) ==
    Section(CoreHeading, OrElse(core, Placeholder))
        \o BlankLine
        \o Section(SummaryHeading, OrElse(session.summary, Placeholder))
        \o BlankLine
        \o Section(RecentHeading, FormatConversation(session.conversation))
        \o BlankLine
        \o Section(LongtermHeading, longtermText)

\* build_prompt (cli.py, line 28)
BuildPrompt(block, input) == block \o BlankLine \o Section(RequestHeading, input)

\* ----------------------------------------------------------------- state
VARIABLES
    fs,          \* the files of the workspace: path -> content
    now,         \* the wall clock, in seconds
    writers,     \* the processes that invoke the program on this workspace
    pc,          \* per process: where it stands in the code
    op,          \* per process: the public operation it is running
    sess,        \* per process: the local `session` dict
    wr,          \* per process: arguments of the running _atomic_write_json
    buf,         \* per process: text read from the active file by save_session
    fd,          \* per process: the file its open descriptor refers to
    rot,         \* per process: locals of summarize_and_prune taken before it mutates
    via,         \* per process: the return statement load_session reached
    ret,         \* per process: outcome of its last call
    saveBase,    \* per process: the active file as save_session found it on entry
    saveTmp,     \* per process: the temporary file of the active file, as save_session found it
    appended,    \* add_message calls whose save was committed
    rotations,   \* rotations triggered
    limit,       \* committed add_message calls at which the exploration stops
    callsLeft,   \* invocations that may still start (-1: any number)
    emptyLeft,   \* add_message calls that may still pass the empty text
    faults,      \* disturbing events so far
    longterm,    \* the long-term log longterm/memory.jsonl
    user_input,  \* the query handed to the search
    found,       \* locals and result of the last _search_longterm_jsonl
    core,        \* per process: the text load_core_memory returned to it last
    prompt,      \* per process: the prompt build_prompt returned to it last
    cmd          \* per process: the ask/run command it is in, and how far

\* the session store and its processes
sessionStore == <<fs, now, writers, limit, emptyLeft, callsLeft, pc, op, sess, wr, buf, fd, rot,
                  via, ret,
                  saveBase, saveTmp, appended, rotations, faults>>

\* the retrieval index
retrieval == <<longterm, user_input, found>>

\* the prompt composer and the commands around it
composer == <<core, prompt, cmd>>

vars == <<sessionStore, retrieval, composer>>

NoOp ==
    [name |-> "none", role |-> "", content |-> <<>>, session_id |-> NoneId,
     overwrite |-> FALSE]
NoPrompt == <<>>
NoCmd ==
    [stage |-> "none", dry_run |-> FALSE, user_input |-> <<>>, stdout |-> <<>>,
     stderr |-> <<>>, output |-> <<>>]
NoWrite == [path |-> <<>>, payload |-> NoSession, site |-> "none"]
NoRot == [conversation |-> <<>>, current_summary |-> <<>>, active |-> FALSE]
NoRet ==
    [kind |-> "none", error |-> "", call |-> "", via |-> "", rotated |-> FALSE,
     session |-> NoSession]
\* the session handed back carries the time of the return
OkStamped(p, session) ==
    [kind |-> "ok", error |-> "", call |-> op[p].name, via |-> via[p],
     rotated |-> rot[p].active, session |-> [session EXCEPT !.last_updated = now]]

\* the call returned `session`
Ok(p, session) ==
    [kind |-> "ok", error |-> "", call |-> op[p].name, via |-> via[p],
     rotated |-> rot[p].active, session |-> session]
\* the call ended with an exception (or the process was killed)
Raised(p, error) ==
    [kind |-> "error", error |-> error, call |-> op[p].name, via |-> "",
     rotated |-> FALSE, session |-> NoSession]

\* the workspace before the first invocation
EmptyStore == [path \in Paths |-> NoFile]

\* the workspace once its layout was ensured
LaidOut == EnsureWorkspaceLayout(EmptyStore)

\* the workspace after a single writer's first n add_message calls (1 <= n <= 20)
StoreAfter(n) ==
    [LaidOut EXCEPT ![Active] = JsonDumps(SessionAfter(n)),
                       ![Backup] = JsonDumps(SessionAfter(n - 1))]

\* one short of the rotation threshold
WarmTurns == MAX_CONVERSATION_TURNS - 1

\* the processes ws find the files of the workspace, left by n add_message calls
InitStore(files, ws, n, more, calls, empties) ==
    /\ fs = files
    /\ now = 0
    /\ writers = ws
    /\ limit = n + more
    /\ callsLeft = calls
    /\ emptyLeft = empties
    /\ pc = [p \in Procs |-> "idle"]
    /\ op = [p \in Procs |-> NoOp]
    /\ sess = [p \in Procs |-> NoSession]
    /\ wr = [p \in Procs |-> NoWrite]
    /\ buf = [p \in Procs |-> NoFile]
    /\ fd = [p \in Procs |-> NoFd]
    /\ rot = [p \in Procs |-> NoRot]
    /\ via = [p \in Procs |-> ""]
    /\ ret = [p \in Procs |-> NoRet]
    /\ saveBase = [p \in Procs |-> NoFile]
    /\ saveTmp = [p \in Procs |-> NoFile]
    /\ appended = n
    /\ rotations = 0
    /\ faults = 0
    /\ core = [p \in Procs |-> <<>>]
    /\ prompt = [p \in Procs |-> NoPrompt]
    /\ cmd = [p \in Procs |-> NoCmd]

\* no search has run: the log is absent and the query empty
InitOn(files, ws, n, more, calls, empties) ==
    /\ InitStore(files, ws, n, more, calls, empties)
    /\ longterm = NoFile
    /\ user_input = <<>>
    /\ found = NoSearch

InitWith(ws, n, more, calls, empties) ==
    InitOn(IF n = 0 THEN EmptyStore ELSE StoreAfter(n), ws, n, more, calls, empties)

\* every message carries a word
InitFor(ws, n, more, calls) == InitWith(ws, n, more, calls, 0)

\* a single writer in a faulty environment, on a fresh workspace or on one that
\* 19 earlier add_message calls have filled
Init == \E n \in {0, WarmTurns} : InitFor({1}, n, MaxAppends, -1)

\* a single writer, undisturbed, from a fresh workspace
InitRun == InitFor({1}, 0, MaxRun, -1)

\* a single writer, undisturbed, from a fresh workspace; some messages are empty
InitText == InitWith({1}, 0, MaxRun, -1, MaxEmpty)

\* the active file was damaged from outside
Damaged(store) == [store EXCEPT ![Active] = Torn]
\* a kill inside backup_path.write_text left the backup truncated
BackupCut(store) == [store EXCEPT ![Backup] = Torn]

\* the stores load_session can find: no active file; a valid one; a damaged one
\* with a valid backup, with no backup, with a truncated backup
LoadStores ==
    {EmptyStore, Damaged([LaidOut EXCEPT ![Active] = JsonDumps(SessionAfter(0))])}
        \cup {StoreAfter(n) : n \in {1, WarmTurns}}
        \cup {Damaged(StoreAfter(n)) : n \in {1, WarmTurns}}
        \cup {Damaged(BackupCut(StoreAfter(n))) : n \in {1, WarmTurns}}

\* two callers of load_session, one after the other, on any of these stores
InitLoad == \E store \in LoadStores : InitOn(store, {1, 2}, 0, 0, MaxLoadCalls, 0)

\* two writers on the same workspace
InitConc == \E n \in {0, WarmTurns} : InitFor({1, 2}, n, MaxCallsConc, MaxCallsConc)

\* the process forgets its locals: the call returned, raised or was killed
Leave(p, outcome) ==
    /\ pc' = [pc EXCEPT ![p] = "idle"]
    /\ op' = [op EXCEPT ![p] = NoOp]
    /\ sess' = [sess EXCEPT ![p] = NoSession]
    /\ wr' = [wr EXCEPT ![p] = NoWrite]
    /\ buf' = [buf EXCEPT ![p] = NoFile]
    /\ fd' = [fd EXCEPT ![p] = NoFd]
    /\ rot' = [rot EXCEPT ![p] = NoRot]
    /\ via' = [via EXCEPT ![p] = ""]
    /\ saveBase' = [saveBase EXCEPT ![p] = NoFile]
    /\ saveTmp' = [saveTmp EXCEPT ![p] = NoFile]
    /\ ret' = [ret EXCEPT ![p] = outcome]

\* a fresh session is created whatever the workspace holds
InitCreatesAlways(exists, overwrite) == TRUE

\* init_session, line 122, negated
InitCreates(exists, overwrite) == ~(exists /\ ~overwrite)

\* a process starts an invocation
Invoke ==
    /\ callsLeft # 0
    /\ callsLeft' = IF callsLeft > 0 THEN callsLeft - 1 ELSE callsLeft

\* where load_session returns to
AfterLoad(p) ==
    CASE op[p].name = "add_message" -> "append"
      [] op[p].name = "build_prompt" -> "compose"
      [] OTHER -> "return"

\* where _atomic_write_json returns to
AfterWrite(p) ==
    CASE wr[p].site = "archive" -> "save"
      [] wr[p].site = "load" -> AfterLoad(p)
      [] OTHER -> "return"

\* ------------------------------------------------------------ operations
\* add_message, lines 106-110: the role check, then into load_session
CallAddMessage(p, raw) ==
    /\ pc[p] = "idle"
    /\ Invoke
    /\ appended < limit
    /\ \/ /\ Normalize(raw) \notin ValidRoles
          /\ ret' = [ret EXCEPT ![p] = [Raised(p, "ValueError") EXCEPT !.call = "add_message"]]
          /\ UNCHANGED <<pc, op, emptyLeft>>
       \/ /\ Normalize(raw) \in ValidRoles
          /\ CallerSends(Normalize(raw), appended + 1)
          /\ \E kind \in ContentKinds :
                /\ kind = "empty" => emptyLeft > 0
                /\ emptyLeft' = IF kind = "empty" THEN emptyLeft - 1 ELSE emptyLeft
                /\ op' = [op EXCEPT ![p] =
                              [NoOp EXCEPT !.name = "add_message",
                                           !.role = Normalize(raw),
                                           !.content = Content(appended + 1, p, kind)]]
          /\ pc' = [pc EXCEPT ![p] = "load"]
          /\ ret' = [ret EXCEPT ![p] = NoRet]
    /\ UNCHANGED <<fs, now, writers, limit, retrieval, composer, sess, wr, buf, fd, rot, via, saveBase, saveTmp,
                   appended, rotations, faults>>

CallLoadSession(p) ==
    /\ pc[p] = "idle"
    /\ Invoke
    /\ op' = [op EXCEPT ![p] = [NoOp EXCEPT !.name = "load_session"]]
    /\ pc' = [pc EXCEPT ![p] = "load"]
    /\ ret' = [ret EXCEPT ![p] = NoRet]
    /\ UNCHANGED <<fs, now, writers, limit, retrieval, composer, emptyLeft, sess, wr, buf, fd, rot, via, saveBase, saveTmp,
                   appended, rotations, faults>>

\* init_session is invoked (line 121); a call that will create a session counts
\* against MaxFaults
CallInitSession(p, sid, overwrite) ==
    /\ pc[p] = "idle"
    /\ Invoke
    /\ op' = [op EXCEPT ![p] = [NoOp EXCEPT !.name = "init_session",
                                            !.session_id = sid,
                                            !.overwrite = overwrite]]
    /\ ret' = [ret EXCEPT ![p] = NoRet]
    /\ pc' = [pc EXCEPT ![p] = "init"]
    /\ \/ /\ ~InitCreates(Exists(fs[Active]), overwrite)
          /\ UNCHANGED faults
       \/ /\ InitCreates(Exists(fs[Active]), overwrite)
          /\ faults < MaxFaults
          /\ faults' = faults + 1
    /\ UNCHANGED <<fs, now, writers, limit, retrieval, composer, emptyLeft, sess, wr, buf, fd, rot, via, saveBase, saveTmp,
                   appended, rotations>>

\* init_session, lines 121-126; session_id and overwrite are not read after them
InitSession(p) ==
    /\ pc[p] = "init"
    /\ fs' = EnsureWorkspaceLayout(fs)
    /\ op' = [op EXCEPT ![p] = [NoOp EXCEPT !.name = "init_session"]]
    /\ \/ /\ ~InitCreates(Exists(fs[Active]), op[p].overwrite)
          /\ pc' = [pc EXCEPT ![p] = "load"]
          /\ UNCHANGED sess
       \/ /\ InitCreates(Exists(fs[Active]), op[p].overwrite)
          /\ sess' = [sess EXCEPT ![p] = DefaultSession(op[p].session_id, now)]
          /\ pc' = [pc EXCEPT ![p] = "save"]
    /\ UNCHANGED <<now, writers, limit, retrieval, composer, emptyLeft, callsLeft, wr, buf, fd, rot, via, ret,
                   saveBase, saveTmp, appended, rotations, faults>>

\* load_session, lines 36-46
LoadSession(p) ==
    /\ pc[p] = "load"
    /\ fs' = EnsureWorkspaceLayout(fs)
    /\ \/ /\ ~Exists(fs[Active])
          /\ sess' = [sess EXCEPT ![p] = DefaultSession(NoneId, now)]
          /\ wr' = [wr EXCEPT ![p] = [path |-> Active,
                                      payload |-> DefaultSession(NoneId, now),
                                      site |-> "load"]]
          /\ via' = [via EXCEPT ![p] = "default"]
          /\ pc' = [pc EXCEPT ![p] = "aw_open"]
       \/ /\ Exists(fs[Active]) /\ Parses(fs[Active])
          /\ sess' = [sess EXCEPT ![p] = JsonLoads(fs[Active])]
          /\ via' = [via EXCEPT ![p] = "read"]
          /\ pc' = [pc EXCEPT ![p] = AfterLoad(p)]
          /\ UNCHANGED wr
       \/ /\ Exists(fs[Active]) /\ ~Parses(fs[Active])
          /\ pc' = [pc EXCEPT ![p] = "load_except"]
          /\ UNCHANGED <<sess, wr, via>>
    /\ UNCHANGED <<now, writers, limit, retrieval, composer, emptyLeft, callsLeft, op, buf, fd, rot, ret, saveBase, saveTmp,
                   appended, rotations, faults>>

\* recovery hands back a fresh session instead of the backup's
RecoveredAsDefault(f) == DefaultSession(NoneId, 0)

\* load_session, line 49: recovered = json.loads(backup text)
Recovered(f) == JsonLoads(f)

\* load_session, lines 47-55: the handler of json.JSONDecodeError
LoadExcept(p) ==
    /\ pc[p] = "load_except"
    /\ \/ /\ Exists(fs[Backup]) /\ Parses(fs[Backup])
          /\ sess' = [sess EXCEPT ![p] = Recovered(fs[Backup])]
          /\ wr' = [wr EXCEPT ![p] = [path |-> Active,
                                      payload |-> Recovered(fs[Backup]),
                                      site |-> "load"]]
          /\ via' = [via EXCEPT ![p] = "backup"]
          /\ pc' = [pc EXCEPT ![p] = "aw_open"]
          /\ UNCHANGED <<op, buf, fd, rot, ret, saveBase, saveTmp>>
       \/ /\ Exists(fs[Backup]) /\ ~Parses(fs[Backup])
          \* json.loads(backup) raises inside the handler: nothing catches it
          /\ Leave(p, Raised(p, "JSONDecodeError"))
       \/ /\ ~Exists(fs[Backup])
          /\ sess' = [sess EXCEPT ![p] = DefaultSession(NoneId, now)]
          /\ wr' = [wr EXCEPT ![p] = [path |-> Active,
                                      payload |-> DefaultSession(NoneId, now),
                                      site |-> "load"]]
          /\ via' = [via EXCEPT ![p] = "default"]
          /\ pc' = [pc EXCEPT ![p] = "aw_open"]
          /\ UNCHANGED <<op, buf, fd, rot, ret, saveBase, saveTmp>>
    /\ UNCHANGED <<fs, now, writers, limit, retrieval, composer, emptyLeft, callsLeft, appended, rotations, faults>>

\* what a write through an open descriptor leaves in the file: the text, or, when
\* another process wrote the file since this one truncated it, possibly a mix
WriteOutcomes(f, text) == IF f = Torn THEN {text} ELSE {text, Torn}

\* the temporary file is opened without truncation: what it held stays under the
\* new text
AwOpenKeeping(p) ==
    /\ pc[p] = "aw_open"
    /\ fs' = IF Exists(fs[TmpOf(wr[p].path)]) THEN fs
             ELSE [fs EXCEPT ![TmpOf(wr[p].path)] = Torn]
    /\ fd' = [fd EXCEPT ![p] = TmpOf(wr[p].path)]
    /\ pc' = [pc EXCEPT ![p] = "aw_write"]
    /\ UNCHANGED <<now, writers, limit, retrieval, composer, emptyLeft, callsLeft, op, sess, wr,
                   buf, rot, via, ret, saveBase, saveTmp, appended, rotations, faults>>

\* _atomic_write_json, line 22: tmp_path.write_text opens the file, truncating it
AwOpen(p) ==
    /\ pc[p] = "aw_open"
    /\ fs' = [fs EXCEPT ![TmpOf(wr[p].path)] = Torn]
    /\ fd' = [fd EXCEPT ![p] = TmpOf(wr[p].path)]
    /\ pc' = [pc EXCEPT ![p] = "aw_write"]
    /\ UNCHANGED <<now, writers, limit, retrieval, composer, emptyLeft, callsLeft, op, sess, wr, buf, rot, via, ret, saveBase, saveTmp,
                   appended, rotations, faults>>

\* _atomic_write_json, line 22: the text is written and the file closed
AwWrite(p) ==
    /\ pc[p] = "aw_write"
    /\ \/ /\ fd[p] = Orphan
          /\ UNCHANGED fs
       \/ /\ fd[p] # Orphan
          /\ \E c \in WriteOutcomes(fs[fd[p]], JsonDumps(wr[p].payload)) :
                 fs' = [fs EXCEPT ![fd[p]] = c]
    /\ fd' = [fd EXCEPT ![p] = NoFd]
    /\ pc' = [pc EXCEPT ![p] = "aw_rename"]
    /\ UNCHANGED <<now, writers, limit, retrieval, composer, emptyLeft, callsLeft, op, sess, wr, buf, rot, via, ret, saveBase, saveTmp,
                   appended, rotations, faults>>

\* descriptors follow the file they were opened on when it is renamed, and lose it
\* when another file is renamed over it
FdAfterRename(from, to) ==
    [q \in Procs |-> IF fd[q] = from THEN to
                     ELSE IF fd[q] = to THEN Orphan
                     ELSE fd[q]]

Commits(p) == op[p].name = "add_message" /\ wr[p].site = "save"

\* _atomic_write_json, line 23: tmp_path.replace(path)
AwRename(p) ==
    /\ pc[p] = "aw_rename"
    /\ \/ /\ ~Exists(fs[TmpOf(wr[p].path)])
          /\ Leave(p, Raised(p, "FileNotFoundError"))
          /\ UNCHANGED <<fs, appended>>
       \/ /\ Exists(fs[TmpOf(wr[p].path)])
          /\ fs' = [fs EXCEPT ![wr[p].path] = fs[TmpOf(wr[p].path)],
                              ![TmpOf(wr[p].path)] = NoFile]
          /\ fd' = FdAfterRename(TmpOf(wr[p].path), wr[p].path)
          /\ pc' = [pc EXCEPT ![p] = AfterWrite(p)]
          /\ wr' = [wr EXCEPT ![p] = NoWrite]
          /\ appended' = IF Commits(p) THEN appended + 1 ELSE appended
          /\ UNCHANGED <<op, sess, buf, rot, via, ret, saveBase, saveTmp>>
    /\ UNCHANGED <<now, writers, limit, retrieval, composer, emptyLeft, callsLeft, rotations, faults>>

\* the rotation goes on to save_session without writing the archive
AppendAndPruneUnarchived(p) ==
    /\ pc[p] = "append"
    /\ LET appendedTo == [sess[p] EXCEPT !.conversation =
                              Append(@, [role |-> op[p].role, content |-> op[p].content])]
       IN  /\ sess' = [sess EXCEPT ![p] =
                          IF NeedsRotation(appendedTo) THEN Rotated(appendedTo, now)
                          ELSE appendedTo]
           /\ rotations' = IF NeedsRotation(appendedTo) THEN rotations + 1 ELSE rotations
           /\ pc' = [pc EXCEPT ![p] = "save"]
    /\ UNCHANGED <<fs, now, writers, limit, retrieval, composer, emptyLeft, callsLeft, op, buf,
                   fd, via, ret, saveBase, saveTmp, appended, faults, wr, rot>>

\* add_message, lines 111-115, with summarize_and_prune, lines 83-100
AppendAndPrune(p) ==
    /\ pc[p] = "append"
    /\ LET appendedTo == [sess[p] EXCEPT !.conversation =
                              Append(@, [role |-> op[p].role, content |-> op[p].content])]
       IN  \/ /\ ~NeedsRotation(appendedTo)
              /\ sess' = [sess EXCEPT ![p] = appendedTo]
              /\ pc' = [pc EXCEPT ![p] = "save"]
              /\ UNCHANGED <<wr, rot, rotations>>
           \/ /\ NeedsRotation(appendedTo)
              /\ sess' = [sess EXCEPT ![p] = Rotated(appendedTo, now)]
              /\ rot' = [rot EXCEPT ![p] = [conversation |-> appendedTo.conversation,
                                            current_summary |-> Strip(appendedTo.summary),
                                            active |-> TRUE]]
              /\ wr' = [wr EXCEPT ![p] = [path |-> ArchivePath(appendedTo.session_id, now),
                                          payload |-> ArchivePayload(appendedTo, now),
                                          site |-> "archive"]]
              /\ rotations' = rotations + 1
              /\ pc' = [pc EXCEPT ![p] = "aw_open"]
    /\ UNCHANGED <<fs, now, writers, limit, retrieval, composer, emptyLeft, callsLeft, op, buf, fd, via, ret, saveBase, saveTmp,
                   appended, faults>>

\* save_session, lines 59-66: last_updated, then the active file is read for the backup
SaveSession(p) ==
    /\ pc[p] = "save"
    /\ fs' = EnsureWorkspaceLayout(fs)
    /\ sess' = [sess EXCEPT ![p].last_updated = now]
    /\ saveBase' = [saveBase EXCEPT ![p] = fs[Active]]
    /\ saveTmp' = [saveTmp EXCEPT ![p] = fs[TmpOf(Active)]]
    /\ \/ /\ Exists(fs[Active])
          /\ buf' = [buf EXCEPT ![p] = fs[Active]]
          /\ pc' = [pc EXCEPT ![p] = "backup_open"]
          /\ UNCHANGED wr
       \/ /\ ~Exists(fs[Active])
          /\ wr' = [wr EXCEPT ![p] = [path |-> Active,
                                      payload |-> [sess[p] EXCEPT !.last_updated = now],
                                      site |-> "save"]]
          /\ pc' = [pc EXCEPT ![p] = "aw_open"]
          /\ UNCHANGED buf
    /\ UNCHANGED <<now, writers, limit, retrieval, composer, emptyLeft, callsLeft, op, fd, rot, via, ret,
                   appended, rotations, faults>>

\* save_session, line 66: backup_path.write_text opens the backup, truncating it
BackupOpen(p) ==
    /\ pc[p] = "backup_open"
    /\ fs' = [fs EXCEPT ![Backup] = Torn]
    /\ fd' = [fd EXCEPT ![p] = Backup]
    /\ pc' = [pc EXCEPT ![p] = "backup_write"]
    /\ UNCHANGED <<now, writers, limit, retrieval, composer, emptyLeft, callsLeft, op, sess, wr, buf, rot, via, ret, saveBase, saveTmp,
                   appended, rotations, faults>>

\* the backup receives the new session instead of the old file
BackupTextNew(p) == JsonDumps(sess[p])

\* save_session, line 66: the text handed to backup_path.write_text
BackupText(p) == buf[p]

\* save_session, lines 66-68: the copy is written, then into _atomic_write_json
BackupWrite(p) ==
    /\ pc[p] = "backup_write"
    /\ \E c \in WriteOutcomes(fs[Backup], BackupText(p)) : fs' = [fs EXCEPT ![Backup] = c]
    /\ fd' = [fd EXCEPT ![p] = NoFd]
    /\ buf' = [buf EXCEPT ![p] = NoFile]
    /\ wr' = [wr EXCEPT ![p] = [path |-> Active, payload |-> sess[p], site |-> "save"]]
    /\ pc' = [pc EXCEPT ![p] = "aw_open"]
    /\ UNCHANGED <<now, writers, limit, retrieval, composer, emptyLeft, callsLeft, op, sess, rot, via, ret, saveBase, saveTmp,
                   appended, rotations, faults>>

\* the public operation returns its session
Return(p) ==
    /\ pc[p] = "return"
    /\ Leave(p, Ok(p, sess[p]))
    /\ UNCHANGED <<fs, now, writers, limit, retrieval, composer, emptyLeft, callsLeft, appended, rotations, faults>>

\* build_prompt(user_input) is invoked (cmd_build; cli.py, lines 27 and 91)
CallBuildPrompt(p) ==
    /\ pc[p] = "idle"
    /\ Invoke
    /\ op' = [op EXCEPT ![p] = [NoOp EXCEPT !.name = "build_prompt", !.content = user_input]]
    /\ pc' = [pc EXCEPT ![p] = "core"]
    /\ ret' = [ret EXCEPT ![p] = NoRet]
    /\ prompt' = [prompt EXCEPT ![p] = NoPrompt]
    /\ UNCHANGED <<fs, now, writers, limit, retrieval, emptyLeft, sess, wr, buf, fd, rot, via,
                   saveBase, saveTmp, appended, rotations, faults, core, cmd>>

\* build_memory_block, line 70: core = load_core_memory(); load_session comes next
ReadCoreMemory(p) ==
    /\ pc[p] = "core"
    /\ core' = [core EXCEPT ![p] = LoadCoreMemory(fs[CoreMemory])]
    /\ pc' = [pc EXCEPT ![p] = "load"]
    /\ UNCHANGED <<fs, now, writers, limit, retrieval, emptyLeft, callsLeft, op, sess, wr, buf,
                   fd, rot, via, ret, saveBase, saveTmp, appended, rotations, faults, prompt, cmd>>

\* build_memory_block, lines 72-81, and build_prompt: the search with the default
\* limit, then the sections and the request are put together
Compose(p) ==
    /\ pc[p] = "compose"
    /\ found' = SearchResult(longterm, op[p].content, DefaultLimit)
    /\ \/ /\ found'.error # ""
          /\ Leave(p, Raised(p, found'.error))
          /\ UNCHANGED prompt
       \/ /\ found'.error = ""
          /\ prompt' = [prompt EXCEPT ![p] =
                  BuildPrompt(BuildMemoryBlock(core[p], sess[p],
                                               SearchLongterm(found'.matches)),
                              op[p].content)]
          /\ Leave(p, Ok(p, sess[p]))
    /\ UNCHANGED <<fs, now, writers, limit, longterm, user_input, emptyLeft, callsLeft,
                   appended, rotations, faults, core, cmd>>

\* ------------------------------------------------------------- commands
\* no command is running in the shell of process p
AtPrompt(p) == cmd[p].stage \in {"none", "done"}

\* what the external process can leave on an output stream, stripped
Streams(name) == {<<>>, <<<<name>>>>}

\* stderr is preferred to stdout
OutputErrFirst(stdout, stderr) ==
    OrElse(stderr, OrElse(stdout, <<<<"(empty response)">>>>))

\* cmd_ask, line 122 (cmd_run, line 104): stdout or stderr or "(empty response)"
Output(stdout, stderr) ==
    OrElse(stdout, OrElse(stderr, <<<<"(empty response)">>>>))

\* cmd_ask, lines 111-114 (cmd_run, line 96): add_message("user", user_input)
CmdAsk(p, dry) ==
    /\ pc[p] = "idle"
    /\ AtPrompt(p)
    /\ Invoke
    /\ appended < (IF dry THEN limit ELSE limit - 1)
    /\ cmd' = [cmd EXCEPT ![p] = [NoCmd EXCEPT !.stage = "user",
                                              !.dry_run = dry,
                                              !.user_input = Content(appended + 1, p, "word")]]
    /\ op' = [op EXCEPT ![p] = [NoOp EXCEPT !.name = "add_message",
                                            !.role = "user",
                                            !.content = Content(appended + 1, p, "word")]]
    /\ pc' = [pc EXCEPT ![p] = "load"]
    /\ ret' = [ret EXCEPT ![p] = NoRet]
    /\ UNCHANGED <<fs, now, writers, limit, retrieval, emptyLeft, sess, wr, buf, fd, rot, via,
                   saveBase, saveTmp, appended, rotations, faults, core, prompt>>

\* cmd_ask, line 115 (cmd_run, line 97): prompt = build_prompt(user_input)
CmdBuildPrompt(p) ==
    /\ pc[p] = "idle"
    /\ cmd[p].stage = "user"
    /\ ret[p].kind = "ok"
    /\ cmd' = [cmd EXCEPT ![p].stage = "build"]
    /\ op' = [op EXCEPT ![p] = [NoOp EXCEPT !.name = "build_prompt",
                                            !.content = cmd[p].user_input]]
    /\ pc' = [pc EXCEPT ![p] = "core"]
    /\ ret' = [ret EXCEPT ![p] = NoRet]
    /\ prompt' = [prompt EXCEPT ![p] = NoPrompt]
    /\ UNCHANGED <<fs, now, writers, limit, retrieval, emptyLeft, callsLeft, sess, wr, buf, fd,
                   rot, via, saveBase, saveTmp, appended, rotations, faults, core>>

\* cmd_ask, lines 117-119 (cmd_run, lines 99-101): the prompt is printed
CmdDryRun(p) ==
    /\ pc[p] = "idle"
    /\ cmd[p].stage = "build"
    /\ ret[p].kind = "ok"
    /\ cmd[p].dry_run
    /\ cmd' = [cmd EXCEPT ![p] = NoCmd]
    /\ UNCHANGED <<sessionStore, retrieval, core, prompt>>

\* cmd_ask, lines 121-123 (cmd_run, lines 103-105): run_external, then
\* add_message("assistant", output)
CmdRunExternal(p, stdout, stderr) ==
    /\ pc[p] = "idle"
    /\ cmd[p].stage = "build"
    /\ ret[p].kind = "ok"
    /\ ~cmd[p].dry_run
    /\ cmd' = [cmd EXCEPT ![p].stage = "assistant",
                          ![p].stdout = stdout,
                          ![p].stderr = stderr,
                          ![p].output = Output(stdout, stderr)]
    /\ op' = [op EXCEPT ![p] = [NoOp EXCEPT !.name = "add_message",
                                            !.role = "assistant",
                                            !.content = Output(stdout, stderr)]]
    /\ pc' = [pc EXCEPT ![p] = "load"]
    /\ ret' = [ret EXCEPT ![p] = NoRet]
    /\ UNCHANGED <<fs, now, writers, limit, retrieval, emptyLeft, callsLeft, sess, wr, buf, fd,
                   rot, via, saveBase, saveTmp, appended, rotations, faults, core, prompt>>

\* cmd_ask, lines 124-125 (cmd_run, lines 106-107): the output is printed
CmdReturn(p) ==
    /\ pc[p] = "idle"
    /\ cmd[p].stage = "assistant"
    /\ ret[p].kind = "ok"
    /\ cmd' = [cmd EXCEPT ![p].stage = "done"]
    /\ UNCHANGED <<sessionStore, retrieval, core, prompt>>

\* cmd_start (cmd_init): init_session(session_id, overwrite)
CmdStart(p, sid, overwrite) == AtPrompt(p) /\ CallInitSession(p, sid, overwrite)

\* cmd_show: load_session()
CmdShow(p) == AtPrompt(p) /\ CallLoadSession(p)

\* cmd_build: build_prompt(user_input)
CmdBuild(p) == AtPrompt(p) /\ CallBuildPrompt(p)

\* ----------------------------------------------------------- environment
\* the process is terminated between two system calls
Crash(p) ==
    /\ pc[p] # "idle"
    /\ faults < MaxFaults
    /\ faults' = faults + 1
    /\ Leave(p, Raised(p, "killed"))
    /\ cmd' = [cmd EXCEPT ![p] = NoCmd]
    /\ UNCHANGED <<fs, now, writers, limit, retrieval, core, prompt, emptyLeft, callsLeft, appended, rotations>>

\* the active file is damaged outside the program (the case load_session handles)
CorruptActive ==
    /\ Parses(fs[Active])
    /\ faults < MaxFaults
    /\ faults' = faults + 1
    /\ fs' = [fs EXCEPT ![Active] = Torn]
    /\ UNCHANGED <<now, writers, limit, retrieval, composer, emptyLeft, callsLeft, pc, op, sess, wr, buf, fd, rot, via, ret, saveBase, saveTmp,
                   appended, rotations>>

\* datetime.now(timezone.utc) advances
Tick ==
    /\ now < MaxClock
    /\ now' = now + 1
    /\ UNCHANGED <<fs, writers, limit, retrieval, composer, emptyLeft, callsLeft, pc, op, sess, wr, buf, fd, rot, via, ret, saveBase, saveTmp,
                   appended, rotations, faults>>

Next ==
    \/ \E p \in writers, raw \in RawRoles : CallAddMessage(p, raw)
    \/ \E p \in writers : CallLoadSession(p)
    \/ \E p \in writers, sid \in SessionIdArgs, overwrite \in BOOLEAN :
           CallInitSession(p, sid, overwrite)
    \/ \E p \in writers : InitSession(p)
    \/ \E p \in writers : LoadSession(p)
    \/ \E p \in writers : LoadExcept(p)
    \/ \E p \in writers : AwOpen(p)
    \/ \E p \in writers : AwWrite(p)
    \/ \E p \in writers : AwRename(p)
    \/ \E p \in writers : AppendAndPrune(p)
    \/ \E p \in writers : SaveSession(p)
    \/ \E p \in writers : BackupOpen(p)
    \/ \E p \in writers : BackupWrite(p)
    \/ \E p \in writers : Return(p)
    \/ \E p \in writers : Crash(p)
    \/ CorruptActive
    \/ Tick

Spec == Init /\ [][Next]_vars

\* the add_message loop of an undisturbed single writer
NextRun ==
    \/ \E p \in writers, raw \in RawRoles : CallAddMessage(p, raw)
    \/ \E p \in writers : LoadSession(p)
    \/ \E p \in writers : AwOpen(p)
    \/ \E p \in writers : AwWrite(p)
    \/ \E p \in writers : AwRename(p)
    \/ \E p \in writers : AppendAndPrune(p)
    \/ \E p \in writers : SaveSession(p)
    \/ \E p \in writers : BackupOpen(p)
    \/ \E p \in writers : BackupWrite(p)
    \/ \E p \in writers : Return(p)
    \/ Tick

SpecRun == InitRun /\ [][NextRun]_vars

SpecText == InitText /\ [][NextRun]_vars

\* a content of n characters without white space
Run(n) == [i \in 1..n |-> ChA]

\* contents around the limit of _compress_messages, character by character: short
\* ones, 220 and 221 characters, white space at the ends, newlines inside
ContentSamples ==
    {<<>>,
     <<NewLine, Space>>,
     <<ChA, NewLine, NewLine, ChB>>,
     Run(max_chars_per_item),
     Run(max_chars_per_item + 1),
     <<Space>> \o Run(max_chars_per_item),
     Run(max_chars_per_item - 1) \o <<NewLine, ChB, ChB, Space, NewLine>>,
     <<NewLine>> \o Run(max_chars_per_item - 2) \o <<NewLine, ChB, ChB>>}

\* the session after 20 add_message calls whose first two contents were c1 and c2
SessionLong(c1, c2) ==
    [SessionAfter(MAX_CONVERSATION_TURNS) EXCEPT !.conversation[1].content = c1,
                                                 !.conversation[2].content = c2]

\* the workspace after these 20 calls
StoreLong(c1, c2) ==
    [LaidOut EXCEPT ![Active] = JsonDumps(SessionLong(c1, c2)),
                    ![Backup] = JsonDumps([SessionLong(c1, c2) EXCEPT !.conversation =
                                               SubSeq(@, 1, MAX_CONVERSATION_TURNS - 1)])]

\* a single writer, undisturbed, on a workspace whose next add_message rotates and
\* compresses such contents
InitCompress ==
    \E c1 \in ContentSamples, c2 \in ContentSamples :
        InitOn(StoreLong(c1, c2), {1}, MAX_CONVERSATION_TURNS, MaxAppends, -1, 0)

SpecCompress == InitCompress /\ [][NextRun]_vars

\* a caller invokes load_session while no other invocation is running
CallLoadSessionAlone(p) ==
    /\ \A q \in Procs : pc[q] = "idle"
    /\ CallLoadSession(p)

\* load_session called again and again, nothing else touching the workspace
NextLoad ==
    \/ \E p \in writers : CallLoadSessionAlone(p)
    \/ \E p \in writers : LoadSession(p)
    \/ \E p \in writers : LoadExcept(p)
    \/ \E p \in writers : AwOpen(p)
    \/ \E p \in writers : AwWrite(p)
    \/ \E p \in writers : AwRename(p)
    \/ \E p \in writers : Return(p)
    \/ Tick

SpecLoad == InitLoad /\ [][NextLoad]_vars

\* a caller invokes build_prompt while no other invocation is running
CallBuildPromptAlone(p) ==
    /\ \A q \in Procs : pc[q] = "idle"
    /\ CallBuildPrompt(p)

\* the session after 21 add_message calls: the 21st made it rotate
SessionRotated == Rotated(SessionAfter(MAX_CONVERSATION_TURNS + 1), 0)

\* the workspace after these 21 calls
StoreRotated ==
    [LaidOut EXCEPT ![Active] = JsonDumps(SessionRotated),
                    ![Backup] = JsonDumps(SessionAfter(MAX_CONVERSATION_TURNS)),
                    ![ArchivePath(GeneratedId, 0)] = JsonDumps(ArchivePayload(
                          SessionAfter(MAX_CONVERSATION_TURNS + 1), 0))]

\* what the core-memory file can hold: nothing, white space, the default text, a
\* text of the user's with white space around it
CoreFiles ==
    {NoFile, TextFile(<<>>), TextFile(<<Space, NewLine>>), TextFile(DEFAULT_CORE_MEMORY),
     TextFile(<<NewLine, <<"rules">>, Space, <<"of the project">>, NewLine>>)}

\* the session after add_message(' user', ' w\nw\n'), add_message('assistant', '')
\* and add_message('system', 'w')
SessionPadded ==
    [SessionAfter(0) EXCEPT !.conversation =
        <<[role |-> "user", content |-> <<Space, Word(1, 1), NewLine, Word(1, 1), NewLine>>],
          [role |-> "assistant", content |-> <<>>],
          [role |-> "system", content |-> <<Word(3, 1)>>]>>]

\* the workspace after these three calls
StorePadded ==
    [LaidOut EXCEPT ![Active] = JsonDumps(SessionPadded),
                    ![Backup] = JsonDumps([SessionPadded EXCEPT !.conversation =
                                               SubSeq(@, 1, 2)])]

\* the session files the composer can find: none, one message, a rotated session,
\* a damaged active file with its backup, contents with white space around them
ComposeStores ==
    {EmptyStore, StoreAfter(1), StoreRotated, Damaged(StoreAfter(1)), StorePadded}

\* the long-term logs the composer is run on
ComposeLogs ==
    {NoFile,
     Jsonl(<<>>),
     Jsonl(<<Row(<<ChA, ChB>>), JunkRow, Row(<<ChUpA, ChUpB, Space, ChB, ChA>>)>>)}

\* two callers of build_prompt, one after the other, with the same input, on any
\* of these workspaces
InitCompose ==
    \E store \in ComposeStores, file \in CoreFiles :
        /\ InitStore([store EXCEPT ![CoreMemory] = file], {1, 2}, 0, 0, MaxBuilds, 0)
        /\ longterm \in ComposeLogs
        /\ user_input \in QueryInputs
        /\ found = NoSearch

\* build_prompt called again and again, nothing else touching the workspace
NextCompose ==
    \/ \E p \in writers : CallBuildPromptAlone(p)
    \/ \E p \in writers : ReadCoreMemory(p)
    \/ \E p \in writers : LoadSession(p)
    \/ \E p \in writers : LoadExcept(p)
    \/ \E p \in writers : AwOpen(p)
    \/ \E p \in writers : AwWrite(p)
    \/ \E p \in writers : AwRename(p)
    \/ \E p \in writers : Compose(p)
    \/ Tick

SpecCompose == InitCompose /\ [][NextCompose]_vars

\* one user at the command line, undisturbed: on a fresh workspace or on one that
\* holds 19 or 20 messages, with any core-memory file
InitCli ==
    \E n \in {0, WarmTurns, MAX_CONVERSATION_TURNS}, file \in CoreFiles :
        /\ InitStore([(IF n = 0 THEN EmptyStore ELSE StoreAfter(n)) EXCEPT ![CoreMemory] = file],
                     {1}, n, 2 * MaxCommands, MaxCommands, 0)
        /\ longterm = NoFile
        /\ user_input = <<ChA, ChB>>
        /\ found = NoSearch

NextCli ==
    \/ \E p \in writers, dry \in BOOLEAN : CmdAsk(p, dry)
    \/ \E p \in writers : CmdBuildPrompt(p)
    \/ \E p \in writers : CmdDryRun(p)
    \/ \E p \in writers, stdout \in Streams("stdout"), stderr \in Streams("stderr") :
           CmdRunExternal(p, stdout, stderr)
    \/ \E p \in writers : CmdReturn(p)
    \/ \E p \in writers, sid \in SessionIdArgs, overwrite \in BOOLEAN :
           CmdStart(p, sid, overwrite)
    \/ \E p \in writers : CmdShow(p)
    \/ \E p \in writers : CmdBuild(p)
    \/ \E p \in writers : InitSession(p)
    \/ \E p \in writers : ReadCoreMemory(p)
    \/ \E p \in writers : LoadSession(p)
    \/ \E p \in writers : AwOpen(p)
    \/ \E p \in writers : AwWrite(p)
    \/ \E p \in writers : AwRename(p)
    \/ \E p \in writers : AppendAndPrune(p)
    \/ \E p \in writers : SaveSession(p)
    \/ \E p \in writers : BackupOpen(p)
    \/ \E p \in writers : BackupWrite(p)
    \/ \E p \in writers : Compose(p)
    \/ \E p \in writers : Return(p)
    \/ Tick

SpecCli == InitCli /\ [][NextCli]_vars

\* _search_longterm_jsonl(user_input, limit)
SearchLongtermJsonl(lim) ==
    /\ found' = SearchResult(longterm, user_input, lim)
    /\ UNCHANGED <<sessionStore, longterm, user_input, composer>>

\* a search on any log with any query; the session store is not involved
InitSearch ==
    /\ InitStore(EmptyStore, {1}, 0, 0, 0, 0)
    /\ longterm \in Logs
    /\ user_input \in QueryInputs
    /\ found = NoSearch

NextSearch == \E lim \in Limits : SearchLongtermJsonl(lim)

SpecSearch == InitSearch /\ [][NextSearch]_vars

\* two writers invoking add_message and load_session on the same workspace
NextConc ==
    \/ \E p \in writers, raw \in RawRoles : CallAddMessage(p, raw)
    \/ \E p \in writers : CallLoadSession(p)
    \/ \E p \in writers : LoadSession(p)
    \/ \E p \in writers : LoadExcept(p)
    \/ \E p \in writers : AwOpen(p)
    \/ \E p \in writers : AwWrite(p)
    \/ \E p \in writers : AwRename(p)
    \/ \E p \in writers : AppendAndPrune(p)
    \/ \E p \in writers : SaveSession(p)
    \/ \E p \in writers : BackupOpen(p)
    \/ \E p \in writers : BackupWrite(p)
    \/ \E p \in writers : Return(p)

SpecConc == InitConc /\ [][NextConc]_vars

\* ================================================================ claims
\* the step of process p is a kill
Killed(p) == pc'[p] = "idle" /\ ret'[p].error = "killed"

\* process p is inside save_session
InSave(p) ==
    \/ pc[p] \in {"save", "backup_open", "backup_write"}
    \/ pc[p] \in {"aw_open", "aw_write", "aw_rename"} /\ wr[p].site = "save"

\* C1: with a single writer, every step of save_session, and a kill at any point of
\* it, leaves the active file as it was or, at the rename only, holding the complete
\* new content; a kill between the temporary write and the rename leaves it as it
\* was, and load_session returns what the active file holds.
C1_AtomicCommit ==
    [][\A p \in Procs :
          /\ (InSave(p) /\ pc'[p] # pc[p]) =>
                \/ fs'[Active] = fs[Active]
                \/ /\ pc[p] = "aw_rename"
                   /\ ~Killed(p)
                   /\ fs'[Active] = JsonDumps(wr[p].payload)
          /\ (InSave(p) /\ Killed(p)) => fs'[Active] = fs[Active]
          /\ (pc[p] = "load" /\ pc'[p] # pc[p] /\ ~Killed(p) /\ Parses(fs[Active])) =>
                sess'[p] = fs[Active].data /\ fs' = fs
          /\ (pc[p] = "return" /\ pc'[p] # pc[p] /\ ~Killed(p)) =>
                ret'[p].kind = "ok" /\ ret'[p].session = sess[p]
    ]_vars

\* C1 witness: a save was killed after its temporary file was written and before the
\* rename (the temporary file holds the new session, one message longer); a later
\* load_session has returned the prior session from the untouched active file.
C1_Witness ==
    /\ ret[1].kind = "ok"
    /\ ret[1].call = "load_session"
    /\ Parses(fs[TmpOf(Active)])
    /\ Parses(fs[Active])
    /\ ret[1].session = fs[Active].data
    /\ Len(fs[TmpOf(Active)].data.conversation) = Len(fs[Active].data.conversation) + 1

\* C2: with concurrent writers the active session file is never half-written: it is
\* absent or it parses.
C2_NoHalfWrittenActive == ~Exists(fs[Active]) \/ Parses(fs[Active])

\* C3: when the active file does not parse and the backup does, load_session takes
\* the backup's content, renames a file with exactly that content over the active
\* file (the backup stays as it is) and returns it; a load_session of an active file
\* that parses returns its content.
C3_BackupRecovery ==
    [][\A p \in Procs :
          /\ (pc[p] = "load" /\ pc'[p] # pc[p] /\ ~Killed(p)
                 /\ Exists(fs[Active]) /\ ~Parses(fs[Active])) =>
                pc'[p] = "load_except"
          /\ (pc[p] = "load_except" /\ pc'[p] # pc[p] /\ ~Killed(p) /\ Parses(fs[Backup])) =>
                /\ via'[p] = "backup"
                /\ sess'[p] = fs[Backup].data
                /\ wr'[p] = [path |-> Active, payload |-> fs[Backup].data, site |-> "load"]
          /\ (pc[p] = "aw_rename" /\ pc'[p] # pc[p] /\ ~Killed(p)
                 /\ via[p] = "backup" /\ wr[p].site = "load") =>
                /\ fs'[Active] = fs[Backup]
                /\ fs'[Backup] = fs[Backup]
                /\ fs'[Active] = JsonDumps(sess[p])
          /\ (pc[p] = "return" /\ pc'[p] # pc[p] /\ ~Killed(p)) =>
                ret'[p].kind = "ok" /\ ret'[p].session = sess[p]
          /\ (pc[p] = "load" /\ pc'[p] # pc[p] /\ ~Killed(p) /\ Parses(fs[Active])) =>
                via'[p] = "read" /\ sess'[p] = fs[Active].data
    ]_vars

\* C3 witness: load_session has returned through the recovery branch, and the active
\* file now holds the backup's content, which is what was returned.
C3_Witness ==
    /\ ret[1].kind = "ok"
    /\ ret[1].call = "load_session"
    /\ ret[1].via = "backup"
    /\ Parses(fs[Backup])
    /\ fs[Active] = fs[Backup]
    /\ ret[1].session = fs[Active].data
    /\ Len(ret[1].session.conversation) > 0

\* C4: no call ends with a JSON parse error: an unparseable active file with an
\* unreadable backup falls back to a default session.
C4_NoParseErrorSurfaced == \A p \in Procs : ret[p].error # "JSONDecodeError"

\* the conversation of the persisted session
Persisted == fs[Active].data.conversation

\* C5 as stated: after more than 20 committed add_message calls the persisted
\* conversation has at most KEEP_RECENT_TURNS messages.
C5_Original ==
    (pc[1] = "idle" /\ appended > MAX_CONVERSATION_TURNS) =>
        Parses(fs[Active]) /\ Len(Persisted) <= KEEP_RECENT_TURNS

\* C5 amended: after more than 20 committed add_message calls the persisted
\* conversation has at most MAX_CONVERSATION_TURNS messages.
C5_BoundedGrowth ==
    appended > MAX_CONVERSATION_TURNS =>
        Parses(fs[Active]) /\ Len(Persisted) <= MAX_CONVERSATION_TURNS

\* C5 witness: more than 20 appends are committed and the persisted conversation is
\* as long as the amended bound allows (and longer than KEEP_RECENT_TURNS).
C5_Witness ==
    /\ pc[1] = "idle"
    /\ appended > MAX_CONVERSATION_TURNS
    /\ Parses(fs[Active])
    /\ Len(Persisted) = MAX_CONVERSATION_TURNS

\* C6: the archive file a rotation writes holds the session as it was before the
\* rotation: the whole conversation and the summary the rotation started from.
C6_ArchiveIsPreRotation ==
    [][\A p \in Procs :
          (pc[p] = "aw_rename" /\ wr[p].site = "archive" /\ pc'[p] = "save") =>
              fs'[wr[p].path] =
                  JsonDumps([sess[p] EXCEPT !.conversation = rot[p].conversation,
                                            !.summary = rot[p].current_summary])
    ]_vars

ArchiveFiles == {a \in ArchivePaths : Exists(fs[a])}

\* C7 as stated: after 25 appends there was one rotation, 10 messages are left, the
\* summary is not empty and the one archive file holds 25 messages.
C7_Original ==
    (pc[1] = "idle" /\ appended = 25) =>
        /\ Parses(fs[Active])
        /\ rotations = 1
        /\ Len(Persisted) = KEEP_RECENT_TURNS
        /\ fs[Active].data.summary # <<>>
        /\ Cardinality(ArchiveFiles) = 1
        /\ \A a \in ArchiveFiles : Parses(fs[a]) /\ Len(fs[a].data.conversation) = 25

\* C7 amended: after 25 alternating appends there was one rotation (at the 21st),
\* the 14 messages 12..25 are left, the summary is not empty and there is one
\* archive file.
C7_RotationScenario ==
    (pc[1] = "idle" /\ appended = 25) =>
        /\ Parses(fs[Active])
        /\ rotations = 1
        /\ Persisted = [i \in 1..14 |-> Message(11 + i, 1)]
        /\ fs[Active].data.summary # <<>>
        /\ Cardinality(ArchiveFiles) = 1
        /\ \A a \in ArchiveFiles : Parses(fs[a])

\* C7 witness: the 25th append has returned, 14 messages are persisted and one
\* archive file exists.
C7_Witness ==
    /\ pc[1] = "idle"
    /\ appended = 25
    /\ ret[1].kind = "ok"
    /\ ret[1].call = "add_message"
    /\ Len(Persisted) = 14
    /\ Cardinality(ArchiveFiles) = 1

\* C8: an archive file, once written, is never changed.
C8_ArchiveWriteOnce ==
    [][\A a \in ArchivePaths : Parses(fs[a]) => fs'[a] = fs[a]]_vars

\* C9: the rename that completes a save_session which found an active file leaves
\* the backup holding exactly the text the active file had when the save began, and
\* the active file holding the new session.
C9_BackupIsPreviousActive ==
    [][\A p \in Procs :
          (pc[p] = "aw_rename" /\ wr[p].site = "save" /\ pc'[p] = "return"
             /\ Exists(saveBase[p])) =>
              /\ fs'[Backup] = saveBase[p]
              /\ fs'[Active] = JsonDumps(sess[p])
    ]_vars

\* C9 witness: an add_message has returned; the backup holds the session of one save
\* ago (one message shorter than the active one), not that of two saves ago.
C9_Witness ==
    /\ pc[1] = "idle"
    /\ ret[1].kind = "ok"
    /\ ret[1].call = "add_message"
    /\ Parses(fs[Backup])
    /\ Parses(fs[Active])
    /\ Len(Persisted) >= 2
    /\ Len(fs[Backup].data.conversation) = Len(Persisted) - 1

\* C10: an add_message that rotated commits and returns a session of at most
\* KEEP_RECENT_TURNS messages.
C10_RotatedFitsKeep ==
    [][\A p \in Procs :
          /\ (pc[p] = "aw_rename" /\ wr[p].site = "save" /\ rot[p].active
                 /\ pc'[p] = "return") =>
                /\ fs'[Active] = JsonDumps(sess[p])
                /\ Len(sess[p].conversation) <= KEEP_RECENT_TURNS
          /\ (pc[p] = "return" /\ rot[p].active /\ pc'[p] # pc[p] /\ ~Killed(p)) =>
                /\ ret'[p].kind = "ok"
                /\ ret'[p].session = sess[p]
                /\ Len(ret'[p].session.conversation) <= KEEP_RECENT_TURNS
    ]_vars

\* C10 witness: an add_message that rotated has returned 10 messages, and they are
\* what the active file holds.
C10_Witness ==
    /\ ret[1].kind = "ok"
    /\ ret[1].rotated
    /\ fs[Active] = JsonDumps(ret[1].session)
    /\ Len(ret[1].session.conversation) = KEEP_RECENT_TURNS

\* text a is the beginning of text b, piece for piece
IsPrefix(a, b) == Len(a) <= Len(b) /\ SubSeq(b, 1, Len(a)) = a

\* C11: the persisted summary only grows: whenever the active file changes, the
\* summary it held is kept, unaltered, as the beginning of the summary it holds now,
\* and an add_message that does not rotate commits the summary it loaded.
C11_SummaryOnlyGrows ==
    [][/\ (Parses(fs[Active]) /\ Parses(fs'[Active])) =>
              IsPrefix(fs[Active].data.summary, fs'[Active].data.summary)
       /\ \A p \in Procs :
              (pc[p] = "aw_rename" /\ wr[p].site = "save" /\ pc'[p] = "return"
                 /\ ~rot[p].active /\ Parses(fs[Active])) =>
                  fs'[Active].data.summary = fs[Active].data.summary
    ]_vars

\* C12: an add_message whose role, stripped and lower-cased, is not user, assistant
\* or system ends with ValueError in the step that starts it, with every file of the
\* workspace (active, backup, archives, temporaries) as it was; no add_message gets
\* past the check with another role.
C12_InvalidRoleRejected ==
    [][\A p \in Procs :
          /\ (ret'[p].error = "ValueError" /\ ret'[p] # ret[p]) =>
                /\ pc[p] = "idle" /\ pc'[p] = "idle"
                /\ fs' = fs
          /\ (pc[p] = "idle" /\ op'[p].name = "add_message") =>
                op'[p].role \in {"user", "assistant", "system"}
    ]_vars

\* C12 witness: an add_message was rejected on a workspace that holds an active
\* session of 20 messages and its backup, one step short of a rotation.
C12_Witness ==
    /\ ret[1].kind = "error"
    /\ ret[1].error = "ValueError"
    /\ ret[1].call = "add_message"
    /\ Parses(fs[Active])
    /\ Len(Persisted) = MAX_CONVERSATION_TURNS
    /\ Parses(fs[Backup])

\* the session add_message hands to summarize_and_prune: the loaded one with the new
\* message appended
Appended(p) ==
    [sess[p] EXCEPT !.conversation =
        Append(@, [role |-> op[p].role, content |-> op[p].content])]

\* C13: summarize_and_prune on a session of at most 20 messages returns it as it is
\* (conversation and summary) and writes nothing; archive files and their
\* temporaries change only inside a call that is rotating.
C13_NoRotationIsNoOp ==
    [][/\ \A p \in Procs :
              (pc[p] = "append" /\ pc'[p] # pc[p] /\ ~Killed(p)
                 /\ Len(Appended(p).conversation) <= 20) =>
                  /\ sess'[p] = Appended(p)
                  /\ pc'[p] = "save"
                  /\ rot'[p] = NoRot /\ wr'[p] = NoWrite
                  /\ fs' = fs
       /\ \A a \in ArchivePaths :
              (fs'[a] # fs[a] \/ fs'[TmpOf(a)] # fs[TmpOf(a)]) =>
                  \E p \in Procs : rot[p].active /\ Len(rot[p].conversation) > 20
    ]_vars

\* C13 witness: summarize_and_prune has returned a session of exactly 20 messages
\* without rotating, and no archive file exists.
C13_Witness ==
    /\ pc[1] = "save"
    /\ op[1].name = "add_message"
    /\ ~rot[1].active
    /\ Len(sess[1].conversation) = 20
    /\ ArchiveFiles = {}

\* C14: a rotation on a conversation of length L > 20 leaves its last 10 messages,
\* in order, as the conversation, and the block it adds to the summary is the
\* compression of its first L - 10 messages, in order.
C14_RotationSplit ==
    [][\A p \in Procs :
          (pc[p] = "append" /\ pc'[p] # pc[p] /\ ~Killed(p)
             /\ Len(Appended(p).conversation) > 20) =>
              LET conversation == Appended(p).conversation
                  L == Len(conversation)
                  overflow == [i \in 1..(L - 10) |-> conversation[i]]
                  recent == [i \in 1..10 |-> conversation[L - 10 + i]]
                  kept == Strip(Appended(p).summary)
              IN  /\ sess'[p].conversation = recent
                  /\ sess'[p].summary =
                         (IF kept = <<>> THEN <<>> ELSE kept \o <<NewLine, NewLine>>)
                             \o HeaderLine(now) \o CompressMessages(overflow)
    ]_vars

\* C14 witness: a rotation has split a conversation of 21 messages: the session
\* keeps messages 12..21 and the summary ends with the line of message 11.
C14_Witness ==
    /\ pc[1] = "aw_open"
    /\ rot[1].active
    /\ Len(rot[1].conversation) = 21
    /\ sess[1].conversation = SubSeq(rot[1].conversation, 12, 21)
    /\ IsPrefix(HeaderLine(now) \o CompressLine(rot[1].conversation[1]), sess[1].summary)
    /\ Len(sess[1].summary) = Len(HeaderLine(now)) + 11 * 6 + 10

\* process p takes a step of its code in this transition
Steps(p) == pc'[p] # pc[p] /\ ~Killed(p)

\* C15: load_session that finds no active file builds a session with an empty
\* conversation, an empty summary and the generated id, writes it through the
\* temporary file, renames that over the active path and returns it; no step of
\* that write touches the backup.
C15_LoadCreatesDefault ==
    [][\A p \in Procs :
          /\ (pc[p] = "load" /\ Steps(p) /\ ~Exists(fs[Active])) =>
                /\ sess'[p] = [session_id |-> GeneratedId, last_updated |-> now,
                               conversation |-> <<>>, summary |-> <<>>]
                /\ wr'[p] = [path |-> Active, payload |-> sess'[p], site |-> "load"]
                /\ pc'[p] = "aw_open"
                /\ \A path \in Paths \ {CoreMemory} : fs'[path] = fs[path]
          /\ (wr[p].site = "load" /\ Steps(p)) =>
                /\ fs'[Backup] = fs[Backup]
                /\ sess'[p] = sess[p]
                /\ pc[p] = "aw_rename" => fs'[Active] = JsonDumps(sess[p])
                /\ pc[p] # "aw_rename" => fs'[Active] = fs[Active]
          /\ (pc[p] = "return" /\ Steps(p)) =>
                ret'[p].kind = "ok" /\ ret'[p].session = sess[p]
    ]_vars

\* C15 witness: on a workspace that never had an active file, load_session has
\* returned the default session, the active file holds it, and there is no backup.
C15_Witness ==
    /\ ret[1].kind = "ok"
    /\ ret[1].call = "load_session"
    /\ ret[1].via = "default"
    /\ faults = 0 /\ appended = 0
    /\ ret[1].session.conversation = <<>>
    /\ ret[1].session.summary = <<>>
    /\ fs[Active] = JsonDumps(ret[1].session)
    /\ ~Exists(fs[Backup])

\* C16: of two load_session calls made one after the other with nothing else
\* touching the workspace, the second ends as the first did and returns the same
\* session, field for field, whatever store the first one found and however much
\* time passed between them.  (A caller's outcome is cleared when it calls again,
\* so two outcomes present together are those of consecutive calls.)
C16_LoadIdempotent ==
    \A p, q \in Procs :
        (ret[p].call = "load_session" /\ ret[q].call = "load_session") =>
            /\ ret[p].kind = ret[q].kind
            /\ ret[p].error = ret[q].error
            /\ ret[p].session = ret[q].session

\* C16 witness: the first call recovered a session of 19 messages from the backup,
\* the clock advanced, and the second call read the same session from the active
\* file.
C16_Witness ==
    /\ ret[1].kind = "ok" /\ ret[1].via = "backup"
    /\ ret[2].kind = "ok" /\ ret[2].via = "read"
    /\ now = 1
    /\ Len(ret[2].session.conversation) = WarmTurns - 1
    /\ ret[1].session = ret[2].session

\* process p is in the load_session that init_session returns (line 123)
InInitLoad(p) ==
    /\ op[p].name = "init_session"
    /\ pc[p] \in {"load", "load_except"} \/ wr[p].site = "load"

\* process p is in the save_session of init_session (line 126) or about to return
\* the session it created (line 127)
InInitSave(p) ==
    /\ op[p].name = "init_session"
    /\ via[p] = ""
    /\ pc[p] \in {"save", "backup_open", "backup_write", "aw_open", "aw_write", "aw_rename",
                  "return"}

\* C17 as stated: init_session with overwrite false on a workspace whose active
\* file exists goes into load_session, and no step of it changes the active or the
\* backup file.
C17_Original ==
    [][\A p \in Procs :
          /\ (pc[p] = "init" /\ Steps(p) /\ Exists(fs[Active]) /\ ~op[p].overwrite) =>
                pc'[p] = "load" /\ fs' = fs
          /\ (InInitLoad(p) /\ Steps(p)) =>
                fs'[Active] = fs[Active] /\ fs'[Backup] = fs[Backup]
    ]_vars

\* C17 amended: init_session with overwrite false on a workspace whose active file
\* exists goes into load_session whatever session_id it was given, changing
\* nothing; when the active file parses, load_session returns its content and
\* changes no file.
C17_InitKeepsExisting ==
    [][\A p \in Procs :
          /\ (pc[p] = "init" /\ Steps(p) /\ Exists(fs[Active]) /\ ~op[p].overwrite) =>
                pc'[p] = "load" /\ fs' = fs /\ sess'[p] = sess[p]
          /\ (InInitLoad(p) /\ pc[p] = "load" /\ Steps(p) /\ Parses(fs[Active])) =>
                /\ pc'[p] = "return"
                /\ sess'[p] = fs[Active].data
                /\ fs' = fs
          /\ (op[p].name = "init_session" /\ pc[p] = "return" /\ Steps(p)) =>
                /\ ret'[p].kind = "ok"
                /\ ret'[p].session = sess[p]
                /\ fs' = fs
    ]_vars

\* C17 witness: init_session has returned the existing session of 19 messages, read
\* from the active file; no session was created and the store is the one the
\* exploration started from.
C17_Witness ==
    /\ ret[1].kind = "ok"
    /\ ret[1].call = "init_session"
    /\ ret[1].via = "read"
    /\ faults = 0
    /\ fs = StoreAfter(WarmTurns)
    /\ ret[1].session = SessionAfter(WarmTurns)

\* C18: init_session with overwrite true, or with no active file, builds a session
\* with an empty conversation, an empty summary and the given id (the generated one
\* for None and for the empty string); save_session changes only its last_updated,
\* and the rename puts exactly that session into the active file, whatever the file
\* held; the call returns it.
C18_InitCreatesFresh ==
    [][\A p \in Procs :
          /\ (pc[p] = "init" /\ Steps(p) /\ (op[p].overwrite \/ ~Exists(fs[Active]))) =>
                /\ pc'[p] = "save"
                /\ sess'[p] =
                       [session_id |-> IF op[p].session_id \in {NoneId, ""}
                                       THEN GeneratedId ELSE op[p].session_id,
                        last_updated |-> now,
                        conversation |-> <<>>,
                        summary |-> <<>>]
          /\ (InInitSave(p) /\ Steps(p)) =>
                /\ pc[p] = "save" => sess'[p] = [sess[p] EXCEPT !.last_updated = now]
                /\ pc[p] \notin {"save", "return"} => sess'[p] = sess[p]
                /\ pc[p] = "aw_rename" => fs'[Active] = JsonDumps(sess[p])
                /\ pc[p] = "return" => ret'[p].kind = "ok" /\ ret'[p].session = sess[p]
    ]_vars

\* C18 witness: init_session has replaced a session of 19 messages (now in the
\* backup) by a fresh one with the given id "s1", and returned it.
C18_Witness ==
    /\ ret[1].kind = "ok"
    /\ ret[1].call = "init_session"
    /\ fs[Active] = JsonDumps(ret[1].session)
    /\ ret[1].session.session_id = "s1"
    /\ ret[1].session.conversation = <<>>
    /\ ret[1].session.summary = <<>>
    /\ fs[Backup] = JsonDumps(SessionAfter(WarmTurns))

\* C19: with two concurrent writers the last successful rename wins: a rename of
\* the temporary file over the active file puts there the content the renaming
\* invocation wrote, and the active file changes in no other step.
C19_LastRenameWins ==
    [][/\ \A p \in Procs :
              (pc[p] = "aw_rename" /\ wr[p].path = Active /\ Steps(p)
                 /\ Exists(fs[TmpOf(Active)])) =>
                  fs'[Active] = JsonDumps(wr[p].payload)
       /\ fs'[Active] # fs[Active] =>
              \E p \in Procs : pc[p] = "aw_rename" /\ wr[p].path = Active /\ Steps(p)
    ]_vars

\* the occurrences of token in text, counted by where they start
Occurrences(text, token) ==
    Cardinality({i \in 1..(Len(text) - Len(token) + 1) :
                    SubSeq(text, i, i + Len(token) - 1) = token})

RECURSIVE SumOccurrences(_, _)
SumOccurrences(tokens, text) ==
    IF tokens = <<>> THEN 0
    ELSE Occurrences(text, Head(tokens)) + SumOccurrences(Tail(tokens), text)

\* C20: the score the search gives a record is the sum, over the query tokens, of
\* the number of occurrences of the token in the lower-cased text of the record.
C20_ScoreCountsOccurrences ==
    \A i \in 1..Len(found.scored) :
        found.scored[i].score = SumOccurrences(found.tokens, Lower(found.scored[i].text))

\* the search ran to its end on a log that is there, with a query that has tokens
Searched ==
    /\ found.limit > 0
    /\ found.error = ""
    /\ found.tokens # <<>>
    /\ Exists(longterm)

\* the lines of the log that hold a record with a positive score, by position
Positive ==
    {i \in 1..Len(longterm.lines) :
        /\ longterm.lines[i].kind = "row"
        /\ Score(found.tokens, Lower(longterm.lines[i].text)) > 0}

ScoreAt(i) == Score(found.tokens, Lower(longterm.lines[i].text))

\* the place of line i among the positive lines: behind every line with a higher
\* score and behind the earlier lines with the same score
Rank(i) ==
    1 + Cardinality({j \in Positive :
                        \/ ScoreAt(j) > ScoreAt(i)
                        \/ ScoreAt(j) = ScoreAt(i) /\ j < i})

Min(a, b) == IF a < b THEN a ELSE b

\* C21: the result of a search is the first min(limit, number of positive-score
\* records) texts of the positive-score records in descending order of score, records
\* of equal score in the order of the log; it never has more than `limit` entries.
C21_SortedStableTruncated ==
    /\ Len(found.matches) <= found.limit
    /\ Searched =>
          /\ Len(found.matches) = Min(found.limit, Cardinality(Positive))
          /\ \A i \in Positive :
                Rank(i) <= found.limit => found.matches[Rank(i)] = longterm.lines[i].text

\* a search with limit 1 on three records that score 1, 2, 2 returned the second
C21_Witness ==
    /\ Searched
    /\ found.limit = 1
    /\ Positive = {1, 2, 3}
    /\ ScoreAt(1) = 1 /\ ScoreAt(2) = 2 /\ ScoreAt(3) = 2
    /\ longterm.lines[3].text # longterm.lines[2].text
    /\ found.matches = <<longterm.lines[2].text>>

\* the text holds none of the tokens of the query
HoldsNoToken(text) ==
    \A k \in 1..Len(found.tokens) : ~Contains(Lower(text), found.tokens[k])

\* C22: a record that holds none of the query's tokens (score 0) is never part of
\* the result of a search.
C22_ZeroScoreDiscarded ==
    \A k \in 1..Len(found.matches) : ~HoldsNoToken(found.matches[k])

\* a search with room to spare left out the one record that scores 0
C22_Witness ==
    /\ Searched
    /\ Cardinality(Positive) = 2
    /\ \E i \in 1..Len(longterm.lines) :
          /\ longterm.lines[i].kind = "row"
          /\ longterm.lines[i].text # <<>>
          /\ HoldsNoToken(longterm.lines[i].text)
    /\ Len(found.matches) = 2
    /\ found.limit = DefaultLimit

\* the maximal runs without white space of the lower-cased query, longer than one
\* character, by the positions of their first and last character
LongRuns ==
    LET text == Lower(user_input)
    IN  {r \in (1..Len(text)) \X (1..Len(text)) :
            /\ r[1] < r[2]
            /\ \A i \in r[1]..r[2] : ~IsWhiteSpace(text[i])
            /\ r[1] = 1 \/ IsWhiteSpace(text[r[1] - 1])
            /\ r[2] = Len(text) \/ IsWhiteSpace(text[r[2] + 1])}

\* C23: the tokens of a query are the white-space separated words of the lower-cased
\* query that are longer than one character, in their order; a query without such a
\* word gives the empty result on every log.
C23_Tokenization ==
    /\ (found.limit > 0 /\ LongRuns = {}) => (found.matches = <<>> /\ found.error = "")
    /\ (found.limit > 0 /\ Exists(longterm)) =>
          /\ Len(found.tokens) = Cardinality(LongRuns)
          /\ \A r \in LongRuns :
                found.tokens[1 + Cardinality({q \in LongRuns : q[1] < r[1]})]
                    = SubSeq(Lower(user_input), r[1], r[2])

\* the query "b a" found nothing in a log that holds the record "ab"
C23_Witness ==
    /\ found.limit > 0
    /\ user_input = <<ChB, Space, ChA>>
    /\ Exists(longterm)
    /\ \E i \in 1..Len(longterm.lines) : longterm.lines[i] = Row(<<ChA, ChB>>)
    /\ found.matches = <<>>

\* the lines of the log without the blank ones and the ones that are not JSON
Cleaned(log) ==
    Jsonl(SelectSeq(log.lines, LAMBDA line : line.kind \notin {"blank", "junk"}))

\* the log holds records only, next to blank lines and lines that are not JSON
RecordsOnly(log) == \A i \in 1..Len(log.lines) : log.lines[i].kind # "scalar"

\* C24: a search on an absent or empty log returns the empty result without error;
\* blank lines and lines that are not JSON are skipped: the search neither fails on
\* them nor returns anything else than on the log without them.
C24_SkipsBlankAndMalformed ==
    found.limit > 0 =>
        /\ (~Exists(longterm) \/ longterm.lines = <<>>) =>
              (found.matches = <<>> /\ found.error = "")
        /\ (Exists(longterm) /\ RecordsOnly(longterm)) =>
              /\ found.error = ""
              /\ found.matches
                    = SearchResult(Cleaned(longterm), user_input, found.limit).matches

\* a search found the record that follows a line that is not JSON
C24_Witness ==
    /\ Searched
    /\ Len(longterm.lines) = 3
    /\ longterm.lines[1] = JunkRow
    /\ longterm.lines[2] = BlankRow
    /\ longterm.lines[3].kind = "row"
    /\ found.matches = <<longterm.lines[3].text>>

IsHeading(piece) ==
    \/ piece = CoreHeading
    \/ piece = SummaryHeading
    \/ piece = RecentHeading
    \/ piece = LongtermHeading
    \/ piece = RequestHeading

\* the prompt with every section showing its placeholder
PlaceholderPrompt(input) ==
    <<CoreHeading, NewLine, <<"(empty)">>, NewLine, NewLine,
      SummaryHeading, NewLine, <<"(empty)">>, NewLine, NewLine,
      RecentHeading, NewLine, <<"(empty)">>, NewLine, NewLine,
      LongtermHeading, NewLine, <<"(no relevant long-term memory found)">>, NewLine, NewLine,
      RequestHeading, NewLine>> \o input

\* the core-memory file is there and holds nothing but white space, the session on
\* file has no summary and no conversation, and the search found nothing
NothingToShow ==
    /\ Exists(fs[CoreMemory])
    /\ \A i \in 1..Len(fs[CoreMemory].data) : IsWhiteSpace(fs[CoreMemory].data[i])
    /\ Parses(fs[Active])
    /\ fs[Active].data.summary = <<>>
    /\ fs[Active].data.conversation = <<>>
    /\ found.matches = <<>>

\* C25: a composed prompt holds the headings CORE MEMORY, SESSION SUMMARY, RECENT
\* CONVERSATION, LONG-TERM MEMORY and USER REQUEST once each and in this order, the
\* first at the start, each other one after a blank line, each followed by a line
\* break, and it ends with the user input as given, right under USER REQUEST.  When
\* the core-memory file is empty, the session has no summary and no conversation
\* and the search finds nothing, every section shows its placeholder and the user
\* input appears once.
C25_PromptLayout ==
    \A p \in Procs :
        prompt[p] # NoPrompt =>
            /\ SelectSeq(prompt[p], IsHeading)
                  = <<CoreHeading, SummaryHeading, RecentHeading, LongtermHeading,
                      RequestHeading>>
            /\ prompt[p][1] = CoreHeading
            /\ \A i \in 1..Len(prompt[p]) :
                  IsHeading(prompt[p][i]) =>
                      /\ i < Len(prompt[p]) /\ prompt[p][i + 1] = NewLine
                      /\ i > 1 => (prompt[p][i - 1] = NewLine /\ prompt[p][i - 2] = NewLine)
                      /\ prompt[p][i] = RequestHeading =>
                            SubSeq(prompt[p], i + 2, Len(prompt[p])) = user_input
            /\ NothingToShow =>
                  /\ prompt[p] = PlaceholderPrompt(user_input)
                  /\ user_input # <<>> => Occurrences(prompt[p], user_input) = 1

\* the prompt for "ab" on a workspace with an empty core-memory file, a session
\* without messages and a log whose records do not match
C25_Witness ==
    /\ prompt[1] # NoPrompt
    /\ NothingToShow
    /\ fs[CoreMemory] = TextFile(<<Space, NewLine>>)
    /\ user_input = <<ChB, Space, ChA>>
    /\ Exists(longterm) /\ longterm.lines # <<>>
    /\ prompt[1] = PlaceholderPrompt(user_input)

\* C26: two calls of the composer with the same input, one after the other and
\* with nothing else touching the workspace, return the same text, whatever the
\* workspace held before the first.  (A caller's prompt is cleared when it calls
\* again, so two prompts present together are those of consecutive calls.)
C26_ComposerPure ==
    (prompt[1] # NoPrompt /\ prompt[2] # NoPrompt) => prompt[1] = prompt[2]

LastTwo(f) ==
    SubSeq(f.data.conversation, Len(f.data.conversation) - 1, Len(f.data.conversation))

\* C28: in an ask/run that is not a dry run, by a single undisturbed user, the
\* user's message is in the session when the prompt is composed; the message added
\* after the external process ran is the assistant's, with stdout, else stderr,
\* else "(empty response)" as content; and when the command ends the conversation
\* on file ends with these two messages, whether or not one of the two appends
\* rotated the session.
C28_AskAppendsBoth ==
    [][\A p \in Procs :
          /\ (cmd[p].stage = "build" /\ pc[p] = "compose") =>
                /\ sess[p].conversation # <<>>
                /\ sess[p].conversation[Len(sess[p].conversation)]
                      = [role |-> "user", content |-> cmd[p].user_input]
                /\ Parses(fs[Active])
                /\ fs[Active].data.conversation = sess[p].conversation
          /\ (cmd[p].stage = "build" /\ cmd'[p].stage = "assistant") =>
                /\ op'[p].role = "assistant"
                /\ op'[p].content = cmd'[p].output
                /\ cmd'[p].output =
                      (IF cmd'[p].stdout # <<>> THEN cmd'[p].stdout
                       ELSE IF cmd'[p].stderr # <<>> THEN cmd'[p].stderr
                       ELSE <<<<"(empty response)">>>>)
          /\ (cmd[p].stage = "assistant" /\ cmd'[p].stage = "done") =>
                /\ Parses(fs'[Active])
                /\ Len(fs'[Active].data.conversation) >= 2
                /\ LastTwo(fs'[Active])
                      = <<[role |-> "user", content |-> cmd[p].user_input],
                          [role |-> "assistant", content |-> cmd[p].output]>>
    ]_vars

\* an ask ended whose user message rotated the session, with stderr as the answer
C28_Witness ==
    /\ cmd[1].stage = "done"
    /\ rotations = 1
    /\ ~ret[1].rotated
    /\ cmd[1].stdout = <<>> /\ cmd[1].stderr # <<>>
    /\ LastTwo(fs[Active])
          = <<[role |-> "user", content |-> cmd[1].user_input],
              [role |-> "assistant", content |-> cmd[1].stderr]>>
    /\ Len(fs[Active].data.conversation) = KEEP_RECENT_TURNS + 1

\* the times of the rotations whose block the summary holds
RotationsIn(summary) == {t \in 0..MaxClock : Contains(summary, HeaderLine(t))}

\* C29: whenever the active file holds a session whose summary has the block of a
\* rotation, the archive file named after the session and the time of that rotation
\* exists: the archive is written before the rotated session is saved, and a kill
\* between the two writes leaves the archive without the rotated session, never the
\* rotated session without the archive.
C29_ArchiveBeforeCommit ==
    Parses(fs[Active]) =>
        \A t \in RotationsIn(fs[Active].data.summary) :
            Exists(fs[ArchivePath(fs[Active].data.session_id, t)])

\* the rotated session is on file, with its archive, in a run with a kill
C29_Witness ==
    /\ Parses(fs[Active])
    /\ RotationsIn(fs[Active].data.summary) # {}
    /\ Len(fs[Active].data.conversation) = KEEP_RECENT_TURNS
    /\ \A t \in RotationsIn(fs[Active].data.summary) :
          Exists(fs[ArchivePath(fs[Active].data.session_id, t)])
    /\ faults > 0
    /\ ret[1].kind = "ok" /\ ret[1].rotated

\* process p runs add_message or load_session and has read a valid active file
ReadValid(p) == op[p].name \in {"add_message", "load_session"} /\ via[p] = "read"

\* C30: add_message, rotation, save_session and the load_session of a valid active
\* file keep the session id: the session read carries the id on file, no step
\* changes the id of the session in hand, and the session written carries it.  The
\* id of a valid active file changes in one step only when init_session creates a
\* session, which it does over an existing file only with overwrite=true.
C30_SessionIdKept ==
    [][/\ \A p \in Procs :
             /\ (pc[p] = "load" /\ Steps(p) /\ Parses(fs[Active])) =>
                   sess'[p].session_id = fs[Active].data.session_id
             /\ (ReadValid(p) /\ Steps(p) /\ pc'[p] # "idle") =>
                   sess'[p].session_id = sess[p].session_id
             /\ (ReadValid(p) /\ Steps(p) /\ pc[p] = "aw_rename" /\ wr[p].path = Active) =>
                   fs'[Active].data.session_id = sess[p].session_id
             /\ (pc[p] = "init" /\ pc'[p] = "save" /\ Exists(fs[Active])) => op[p].overwrite
       /\ (/\ Parses(fs[Active]) /\ Parses(fs'[Active])
           /\ fs'[Active].data.session_id # fs[Active].data.session_id) =>
              \E p \in Procs : InInitSave(p) /\ pc[p] = "aw_rename"
    ]_vars

\* add_message has rotated and saved the session: the active file, the backup and
\* the archive carry the id the session was created with
C30_Witness ==
    /\ ret[1].kind = "ok" /\ ret[1].call = "add_message" /\ ret[1].rotated
    /\ Parses(fs[Active]) /\ Parses(fs[Backup])
    /\ fs[Active].data.session_id = GeneratedId
    /\ fs[Backup].data.session_id = GeneratedId
    /\ ret[1].session.session_id = GeneratedId
    /\ faults = 0

\* the messages the rotation of process p compresses
Overflow(p) == SubSeq(rot[p].conversation, 1, Len(rot[p].conversation) - KEEP_RECENT_TURNS)

\* the block the rotation of process p has put into the summary: what follows the
\* summary so far, the blank line and the header
Block(p) ==
    LET before == IF rot[p].current_summary = <<>> THEN 0
                  ELSE Len(rot[p].current_summary) + Len(BlankLine)
    IN  SubSeq(sess[p].summary, before + Len(HeaderLine(0)) + 1, Len(sess[p].summary))

\* where a text has its newlines
NewLinesOf(text) == {i \in 1..Len(text) : text[i] = NewLine}

\* the i-th line of a text
LineOf(text, i) ==
    LET nl == NewLinesOf(text)
        nth(k) == CHOOSE x \in nl : Cardinality({y \in nl : y < x}) = k - 1
        first == IF i = 1 THEN 1 ELSE nth(i - 1) + 1
        last == IF i = Cardinality(nl) + 1 THEN Len(text) ELSE nth(i) - 1
    IN  SubSeq(text, first, last)

\* line is "- role: " and then the content: whole when it has at most 220
\* characters, else its first 220 characters and the marker; newlines are spaces
RendersAs(line, role, content) ==
    LET kept == Min(Len(content), 220)
    IN  /\ Len(line) = 5 + kept + (IF Len(content) > 220 THEN 1 ELSE 0)
        /\ SubSeq(line, 1, 5) = <<<<"-">>, Space, <<role>>, <<":">>, Space>>
        /\ \A j \in 1..kept :
               line[5 + j] = IF content[j] = NewLine THEN Space ELSE content[j]
        /\ Len(content) > 220 => line[Len(line)] = <<"...">>

\* C31 as stated: the block of a rotation has exactly one line per overflow message,
\* in their order, each "- role: content" with the content as it was appended: cut
\* to its first 220 characters and the marker when it is longer than 220, kept whole
\* otherwise.
C31_Original ==
    \A p \in Procs :
        rot[p].active =>
            /\ Cardinality(NewLinesOf(Block(p))) = Len(Overflow(p)) - 1
            /\ \A i \in 1..Len(Overflow(p)) :
                   RendersAs(LineOf(Block(p), i), Overflow(p)[i].role, Overflow(p)[i].content)

\* C31 amended: the block of a rotation has exactly one line per overflow message,
\* in their order, each "- role: content" with the content stripped of the white
\* space at its ends: the stripped content is cut to its first 220 characters and
\* the marker when it is longer than 220 and kept whole otherwise, its newlines
\* replaced by spaces.
C31_Compression ==
    \A p \in Procs :
        rot[p].active =>
            /\ Cardinality(NewLinesOf(Block(p))) = Len(Overflow(p)) - 1
            /\ \A i \in 1..Len(Overflow(p)) :
                   RendersAs(LineOf(Block(p), i), Overflow(p)[i].role,
                             Strip(Overflow(p)[i].content))

\* C31 witness: a rotation has compressed 11 messages; the first content had 221
\* characters, 220 without the space in front, and its line carries no marker; the
\* second had newlines inside and more than 220 characters after stripping, and its
\* line ends with the marker after 220 characters, none of them a newline.
C31_Witness ==
    /\ rot[1].active
    /\ Len(Overflow(1)) = 11
    /\ Len(Overflow(1)[1].content) = 221
    /\ Overflow(1)[1].content[1] = Space
    /\ LineOf(Block(1), 1) = <<<<"-">>, Space, <<"user">>, <<":">>, Space>> \o Run(220)
    /\ \E j \in 1..Len(Overflow(1)[2].content) : Overflow(1)[2].content[j] = NewLine
    /\ Len(Strip(Overflow(1)[2].content)) > 220
    /\ Len(LineOf(Block(1), 2)) = 5 + 220 + 1
    /\ LineOf(Block(1), 2)[226] = <<"...">>

\* C32: a rotation makes the new summary out of the prior summary as it is, a blank
\* line when the prior summary is not empty, the header line with the time, and the
\* compressed block; with an empty prior summary it starts with the header.
C32_SummaryLayout ==
    [][\A p \in Procs :
          (pc[p] = "append" /\ pc'[p] # pc[p] /\ ~Killed(p) /\ NeedsRotation(Appended(p))) =>
              LET prior == sess[p].summary
                  block == CompressMessages(OldMessages(Appended(p).conversation))
              IN  sess'[p].summary =
                      IF prior = <<>> THEN HeaderLine(now) \o block
                      ELSE prior \o BlankLine \o HeaderLine(now) \o block
    ]_vars

\* the RECENT CONVERSATION section of a prompt: what stands between the line of its
\* heading and the blank line before the next heading
RecentSection(text) ==
    LET from == CHOOSE i \in 1..Len(text) : text[i] = RecentHeading
        to == CHOOSE i \in 1..Len(text) : text[i] = LongtermHeading
    IN  SubSeq(text, from + 2, to - 3)

\* how long the entry of a message is: "[", the role, "]", a space, the content
EntryLen(m) == 4 + Len(Strip(m.content))

\* where the entry of the i-th message starts in the section
RECURSIVE EntryStart(_, _)
EntryStart(conversation, i) ==
    IF i = 1 THEN 1
    ELSE EntryStart(conversation, i - 1) + EntryLen(conversation[i - 1]) + 1

\* the role in capitals
Shown == [user |-> "USER", assistant |-> "ASSISTANT", system |-> "SYSTEM"]

\* C33: the RECENT CONVERSATION section of a composed prompt is the placeholder
\* when the session's conversation is empty; otherwise it holds one entry per
\* message, in the order of the conversation and separated by line breaks, each
\* "[ROLE] content" with the role in capitals and the content (without the white
\* space at its ends), and nothing else.
C33_RecentConversation ==
    \A p \in Procs :
        prompt[p] # NoPrompt =>
            /\ Parses(fs[Active])
            /\ LET conversation == fs[Active].data.conversation
                   n == Len(conversation)
                   recent == RecentSection(prompt[p])
               IN  IF n = 0 THEN recent = <<<<"(empty)">>>>
                   ELSE /\ Len(recent) = EntryStart(conversation, n) + EntryLen(conversation[n]) - 1
                        /\ \A i \in 1..n :
                              LET m == conversation[i]
                                  at == EntryStart(conversation, i)
                              IN  /\ SubSeq(recent, at, at + EntryLen(m) - 1) =
                                         <<<<"[">>, <<Shown[m.role]>>, <<"]">>, Space>>
                                             \o Strip(m.content)
                                  /\ i < n => recent[at + EntryLen(m)] = NewLine

\* C33 witness: a prompt composed on the session of ten messages a rotation left:
\* the section starts with the entry of message 12, an assistant's, and ends with
\* that of message 21, a user's.
C33_Witness ==
    /\ prompt[1] # NoPrompt
    /\ Parses(fs[Active])
    /\ Len(fs[Active].data.conversation) = KEEP_RECENT_TURNS
    /\ SubSeq(RecentSection(prompt[1]), 1, 5) =
           <<<<"[">>, <<"ASSISTANT">>, <<"]">>, Space, Word(12, 1)>>
    /\ SubSeq(RecentSection(prompt[1]), 55, 59) =
           <<<<"[">>, <<"USER">>, <<"]">>, Space, Word(21, 1)>>
    /\ Len(RecentSection(prompt[1])) = 59

\* C34: with a single writer starting from an empty session, the conversation of the
\* persisted active session never has more than MAX_CONVERSATION_TURNS messages: the
\* active file, once there, parses and holds at most 20 messages, and so does the
\* session every completed add_message returns.
C34_ConversationBound ==
    /\ Exists(fs[Active]) =>
           Parses(fs[Active]) /\ Len(Persisted) <= MAX_CONVERSATION_TURNS
    /\ \A p \in Procs :
           (pc[p] = "idle" /\ ret[p].kind = "ok" /\ ret[p].call = "add_message") =>
               /\ fs[Active] = JsonDumps(ret[p].session)
               /\ Len(ret[p].session.conversation) <= MAX_CONVERSATION_TURNS

\* C34 witness: the 20th add_message has completed without a rotation and the
\* persisted conversation is at the bound; the next call will take it past 20.
C34_Witness ==
    /\ pc[1] = "idle"
    /\ ret[1].kind = "ok"
    /\ ret[1].call = "add_message"
    /\ appended = MAX_CONVERSATION_TURNS
    /\ rotations = 0
    /\ Len(Persisted) = MAX_CONVERSATION_TURNS

\* C35: with a single writer starting from an empty session, the persisted
\* conversation is at all times a contiguous suffix of the messages appended so far,
\* in the order and with the role and content of their appends, ending with the
\* message appended last: with k messages persisted after n committed appends,
\* these are the appends n - k + 1 .. n.
C35_ContiguousSuffix ==
    Exists(fs[Active]) =>
        /\ Parses(fs[Active])
        /\ Len(Persisted) <= appended
        /\ \A i \in 1..Len(Persisted) :
               Persisted[i] = Message(appended - Len(Persisted) + i, 1)

\* C35 witness: 31 appends are committed, one rotation lies behind, and the 20
\* persisted messages are the appends 12 to 31.
C35_Witness ==
    /\ pc[1] = "idle"
    /\ ret[1].kind = "ok"
    /\ ret[1].call = "add_message"
    /\ appended = 31
    /\ rotations = 1
    /\ Len(Persisted) = 20
    /\ Persisted[1] = Message(12, 1)
    /\ Persisted[20] = Message(31, 1)

\* how many message lines a summary holds: lines that start with "- "
MessageLines(summary) ==
    Cardinality({i \in 1..Len(summary) :
                    /\ summary[i] = <<"-">>
                    /\ i = 1 \/ summary[i - 1] = NewLine})

\* the n-th append is one of 21, 32, 43, ...
RotationDue(n) == n >= 21 /\ (n - 21) % 11 = 0

\* C36: with add_message called one message at a time from an empty session, the
\* n-th append rotates exactly when it makes the conversation 21 long, which is
\* exactly when n is 21, 32, 43, ...; a rotation puts 11 messages into the summary
\* and leaves 10 in the conversation, and an append that does not rotate leaves the
\* summary alone and the conversation one longer.
C36_RotationSchedule ==
    [][\A p \in Procs :
          (pc[p] = "append" /\ pc'[p] # pc[p] /\ ~Killed(p)) =>
              LET n == appended + 1
              IN  /\ rot'[p].active <=> RotationDue(n)
                  /\ RotationDue(n) <=> Len(Appended(p).conversation) = 21
                  /\ rotations' = rotations + (IF RotationDue(n) THEN 1 ELSE 0)
                  /\ RotationDue(n) =>
                         /\ Len(sess'[p].conversation) = 10
                         /\ MessageLines(sess'[p].summary) = MessageLines(sess[p].summary) + 11
                         /\ Len(rot'[p].conversation) = 21
                  /\ ~RotationDue(n) =>
                         /\ sess'[p].summary = sess[p].summary
                         /\ Len(sess'[p].conversation) = Len(sess[p].conversation) + 1
                         /\ Len(sess'[p].conversation) <= 20
    ]_vars

\* C36 witness: the 43rd append is rotating, the third rotation after those of the
\* 21st and the 32nd: 33 messages are in the summary and 10 in the conversation.
C36_Witness ==
    /\ rot[1].active
    /\ appended = 42
    /\ rotations = 3
    /\ Len(rot[1].conversation) = 21
    /\ Len(sess[1].conversation) = 10
    /\ MessageLines(sess[1].summary) = 33

\* the summary line of the k-th message of the single writer
SummaryLineOf(k) == <<<<"-">>, Space, <<ExpectedRole(k)>>, <<":">>, Space, Word(k, 1)>>

\* C37: with a single writer starting from an empty session no appended message is
\* lost: each of the messages appended so far is in the persisted conversation, and
\* then on no line of the persisted summary, or it is on exactly one line of the
\* summary; the message lines of the summary and the messages of the conversation
\* are together as many as the messages appended.
C37_NothingDropped ==
    Exists(fs[Active]) =>
        /\ Parses(fs[Active])
        /\ LET summary == fs[Active].data.summary
               summarized == appended - Len(Persisted)
           IN  /\ MessageLines(summary) + Len(Persisted) = appended
               /\ \A j \in 1..appended :
                      IF j > summarized
                      THEN /\ Persisted[j - summarized] = Message(j, 1)
                           /\ Occurrences(summary, SummaryLineOf(j)) = 0
                      ELSE Occurrences(summary, SummaryLineOf(j)) = 1

\* C37 witness: 43 appends have completed, three of them rotating: 33 messages
\* have their line in the summary and the last 10 are in the conversation.
C37_Witness ==
    /\ pc[1] = "idle"
    /\ ret[1].kind = "ok"
    /\ ret[1].call = "add_message"
    /\ appended = 43
    /\ MessageLines(fs[Active].data.summary) = 33
    /\ Len(Persisted) = 10
    /\ Occurrences(fs[Active].data.summary, SummaryLineOf(1)) = 1
    /\ Occurrences(fs[Active].data.summary, SummaryLineOf(33)) = 1

\* the temporary file of the active file
ActiveTmp == fs[TmpOf(Active)]

\* C38: a temporary file that an interrupted save left behind has no effect on what
\* comes later.  A load_session that finds one takes its session from the active
\* file when that parses, from the backup when the active file does not parse and
\* the backup does, and a fresh one when the active file is absent, and leaves the
\* temporary file alone; a save_session that found one on entry commits, with its
\* rename, exactly its own session to the active file, and no temporary file stays.
C38_LeftoverIgnored ==
    [][\A p \in Procs :
          /\ (pc[p] = "load" /\ Steps(p) /\ Exists(ActiveTmp)) =>
                /\ Parses(fs[Active]) => sess'[p] = fs[Active].data /\ via'[p] = "read"
                /\ ~Exists(fs[Active]) => sess'[p] = DefaultSession(NoneId, now)
                /\ (Exists(fs[Active]) /\ ~Parses(fs[Active])) =>
                       pc'[p] = "load_except" /\ sess'[p] = sess[p]
                /\ fs'[TmpOf(Active)] = ActiveTmp
          /\ (pc[p] = "load_except" /\ Steps(p) /\ Exists(ActiveTmp)) =>
                /\ Parses(fs[Backup]) => sess'[p] = fs[Backup].data
                /\ ~Exists(fs[Backup]) => sess'[p] = DefaultSession(NoneId, now)
                /\ fs'[TmpOf(Active)] = ActiveTmp
          /\ (pc[p] = "aw_rename" /\ wr[p].site = "save" /\ Steps(p) /\ Exists(saveTmp[p])) =>
                /\ pc'[p] = "return"
                /\ fs'[Active] = JsonDumps(sess[p])
                /\ ~Exists(fs'[TmpOf(Active)])
    ]_vars

\* C38 witness: a save was killed between the write of its temporary file and the
\* rename; the add_message called next found the complete temporary file when it
\* came to save, and its rename has put its own session, whose last message is the
\* one it appended, into the active file; no temporary file is left.
C38_Witness ==
    /\ pc[1] = "return"
    /\ op[1].name = "add_message"
    /\ Parses(saveTmp[1])
    /\ fs[Active] = JsonDumps(sess[1])
    /\ fs[Active] # saveTmp[1]
    /\ sess[1].conversation[Len(sess[1].conversation)] =
           [role |-> op[1].role, content |-> op[1].content]
    /\ ~Exists(ActiveTmp)
====
